---- MODULE Spec2Model ----
(***************************************************************************)
(* A model of the AICR review pipeline: the orchestrator of               *)
(* services/aiCodeReviewer.js (AICodeReviewer), the AI API service, the    *)
(* review cache (CacheManager) and the GitLab publisher (SimpleGitlabCR).  *)
(*                                                                         *)
(* JavaScript runs one handler at a time: code between two awaits is one   *)
(* atomic step.  The suspension points modelled are the HTTP calls to the  *)
(* model provider and to the source-control host.                          *)
(***************************************************************************)
EXTENDS Integers, Sequences, FiniteSets, TLC

(***************************************************************************)
(* Configuration.  The performance values are read from the environment   *)
(* (MAX_FILES_CONCURRENT, MAX_GROUPS_PER_BATCH, MAX_CONCURRENT_AI); the    *)
(* model runs a deployment configured with small values.  Time is counted  *)
(* in ticks of 12 hours, so the 24 h expiry is 2 ticks; the cache cap is   *)
(* scaled down from 1000.                                                  *)
(***************************************************************************)
maxConcurrentFiles == 2

maxGroupsPerBatch == 4

maxConcurrentAI == 3

smallBatchLimit == 3

cacheExpiry == 2

cacheMaxSize == 2

MAX_COMMENTS_PER_FILE == 2

maxLinesPerGroup == 2

maxRestarts == 3

maxTasks == 2

(***************************************************************************)
(* Bounds of the model.                                                    *)
(***************************************************************************)
MaxFiles == 3

MaxUnits == 8

MaxRuns == 2

MaxClock == 3

MaxKeys == 3

NumPublishers == 2

MaxGroups == 4

MaxReplyLines == 3

MaxNum == 3

MaxDiffLines == 5

MaxHunkStart == 4

MaxLineNo == 5

MaxBodyLines == 3

MaxCalls == 6

MaxForks == 6

MaxBatch == 7

MaxContent == 2

MaxEvents == 3

MaxMillis == 1

MaxSwitches == 2

(***************************************************************************)
(* Sequence helpers.                                                       *)
(***************************************************************************)
Min(a, b) == IF a < b THEN a ELSE b

IdxSeq(n) == [i \in 1..n |-> i]

RECURSIVE Concat(_)
Concat(ss) == IF ss = <<>> THEN <<>> ELSE Head(ss) \o Concat(Tail(ss))

RECURSIVE SumSeq(_)
SumSeq(s) == IF s = <<>> THEN 0 ELSE Head(s) + SumSeq(Tail(s))

Range(s) == {s[i] : i \in DOMAIN s}

\* CodeProcessor.chunkArray: slices of `size` consecutive elements.
chunkArray(array, size) ==
  [k \in 1..((Len(array) + size - 1) \div size) |->
     SubSeq(array, (k - 1) * size + 1, Min(k * size, Len(array)))]

(***************************************************************************)
(* Data.  A change is one file of the change-set.  Its diff is kept as the *)
(* outcome of parsing, filtering and grouping it: `units` change groups,   *)
(* group i covering the two added lines 3i-2 and 3i-1.  Every second       *)
(* group contains comment syntax.                                          *)
(***************************************************************************)
MakeGroup(i) ==
  [id |-> i, startLine |-> 3 * i - 2, endLine |-> 3 * i - 1, size |-> 2,
   content |-> i, hasCommentSyntax |-> (i % 2 = 0)]

\* CodeProcessor.optimizeLineGroups(preFilterCodeLines(parseDiffLines(diff)))
lineGroups(change) == [i \in 1..change.units |-> MakeGroup(i)]

\* reviewNewFile: one group holding every parsed line of the file.
newFileGroup(change) ==
  [id |-> 1, startLine |-> 1, endLine |-> 3 * change.units - 1,
   size |-> 2 * change.units, content |-> 0,
   hasCommentSyntax |-> (change.units >= 2)]

\* AICodeReviewer.isNewFile
isNewFile(change) == change.old_path = 0 \/ change.onlyAdded

(***************************************************************************)
(* The model's reply.  A reply is a sequence of non-blank lines; a line is *)
(* an optional leading number ("N. ", num = 0 when absent) and a text:     *)
(* "PASS" (the line contains the pass sentinel), "good" (a concrete        *)
(* suggestion), "low" (a sentence of the low-quality phrase list), "short"  *)
(* (a remark of 8 characters) or "" (nothing after the number).            *)
(***************************************************************************)
TextLen(t) == CASE t = "PASS" -> 4 [] t = "" -> 0 [] t = "short" -> 8 [] OTHER -> 20

\* "N. text" is 3 characters longer than its text; a bare "N." has 2.
LineLen(line) ==
  (IF line.num = 0 THEN 0 ELSE IF line.text = "" THEN 2 ELSE 3) + TextLen(line.text)

TextLength(reviewText) ==
  IF reviewText = <<>> THEN 0
  ELSE SumSeq([i \in 1..Len(reviewText) |-> LineLen(reviewText[i])])
       + (Len(reviewText) - 1)

\* The provider answers a prompt deterministically: one numbered line per group.
Verdict(path, group) ==
  LET k == path + group.id
  IN IF k % 3 = 0 THEN "PASS" ELSE IF k % 5 = 0 THEN "low" ELSE "good"

ModelResponse(path, groups) ==
  [i \in 1..Len(groups) |-> [num |-> i, text |-> Verdict(path, groups[i])]]

(***************************************************************************)
(* AIApiService.parseBatchReviewResultFast                                 *)
(***************************************************************************)
MakeResult(group, review) ==
  [lineNumber |-> group.endLine, review |-> review, groupId |-> group.id,
   isGroupEnd |-> TRUE, groupSize |-> group.size]

cleanReview(line) == <<[num |-> 0, text |-> line.text]>>

ParseByPosition(groups, lines) ==
  LET keep == SelectSeq(IdxSeq(Len(lines)),
                        LAMBDA i : /\ lines[i].text # "PASS"
                                   /\ i <= Len(groups)
                                   /\ lines[i].text # "")
  IN [k \in 1..Len(keep) |-> MakeResult(groups[keep[k]], cleanReview(lines[keep[k]]))]

\* A parser without the fallback ladder.
tryParsePrimaryOnly(groups, reviewText) ==
  [threw |-> FALSE,
   reviews |-> IF (\A i \in 1..Len(reviewText) : reviewText[i].text = "PASS")
                  \/ ~(TextLength(reviewText) > 10)
               THEN <<>>
               ELSE ParseByPosition(groups, reviewText)]

\* The try block.  Reading lastLine.lineNumber of a group without lines is a
\* TypeError: the block stops there with the results pushed so far.
tryParse(groups, reviewText) ==
  LET allPass == \A i \in 1..Len(reviewText) : reviewText[i].text = "PASS"
      keep == SelectSeq(IdxSeq(Len(reviewText)),
                        LAMBDA i : /\ reviewText[i].text # "PASS"
                                   /\ i <= Len(groups)
                                   /\ reviewText[i].text # "")
      bad == {k \in 1..Len(keep) : groups[keep[k]].size = 0}
      first == CHOOSE k \in bad : \A j \in bad : k <= j
      primary == ParseByPosition(groups, reviewText)
  IN IF allPass THEN [threw |-> FALSE, reviews |-> <<>>]
     ELSE IF ~(TextLength(reviewText) > 10) THEN [threw |-> FALSE, reviews |-> <<>>]
     ELSE IF bad # {}
     THEN [threw |-> TRUE, reviews |-> SubSeq(primary, 1, first - 1)]
     ELSE IF primary # <<>> THEN [threw |-> FALSE, reviews |-> primary]
     ELSE IF Len(reviewText) >= Len(groups)
          THEN [threw |-> FALSE,
                reviews |-> ParseByPosition(groups, SubSeq(reviewText, 1, Len(groups)))]
     ELSE IF groups # <<>>
          THEN IF groups[1].size = 0 THEN [threw |-> TRUE, reviews |-> <<>>]
               ELSE [threw |-> FALSE, reviews |-> <<MakeResult(groups[1], reviewText)>>]
     ELSE [threw |-> FALSE, reviews |-> <<>>]

\* A parser whose catch clause throws the error again.
catchParseRethrow(outcome) == outcome

\* catch (err) { Logger.error(...) } return reviews;
catchParse(outcome) == [threw |-> FALSE, reviews |-> outcome.reviews]

parseBatchReviewResultFast(groups, reviewText) ==
  catchParse(tryParse(groups, reviewText)).reviews

(***************************************************************************)
(* CodeProcessor.filterMeaningfulReviews                                   *)
(***************************************************************************)
isLowQualityReview(review) ==
  \E i \in 1..Len(review) : review[i].text \in {"low", "PASS"}

RECURSIVE FilterFrom(_, _, _)
FilterFrom(reviews, acc, seen) ==
  IF reviews = <<>> THEN acc
  ELSE LET r == Head(reviews)
           key == <<r.lineNumber, r.review>>
       IN IF \/ TextLength(r.review) = 0
             \/ key \in seen
             \/ TextLength(r.review) < 15
             \/ isLowQualityReview(r.review)
          THEN FilterFrom(Tail(reviews), acc, seen)
          ELSE FilterFrom(Tail(reviews), Append(acc, r), seen \cup {key})

filterMeaningfulReviews(reviews) == FilterFrom(reviews, <<>>, {})


(***************************************************************************)
(* CommentMatcher.  An existing comment is [filePath, line, startLine,     *)
(* endLine, note]; 0 stands for null in a line field and for the sentinel  *)
(* path "general".  The note is kept as what isCommentSimilar reads of it: *)
(* "" (empty), "other" (no common-issue keyword), "removeComment" (a       *)
(* comment keyword with a removal suggestion and no token shared with the  *)
(* code) or "overlap" (a common-issue keyword and more than 5% of shared   *)
(* tokens).                                                                *)
(***************************************************************************)
isCommentOverlapping(comment, startLine, endLine) ==
  IF comment.startLine # 0 /\ comment.endLine # 0
  THEN ~(endLine < comment.startLine \/ startLine > comment.endLine)
  ELSE IF comment.line # 0
  THEN comment.line >= startLine /\ comment.line <= endLine
  ELSE comment.filePath = 0

isCommentRelatedIssue(comment, group) ==
  comment.note = "removeComment" /\ group.hasCommentSyntax

isCommentSimilar(comment, group) ==
  IF comment.note = "" THEN FALSE
  ELSE IF comment.note \in {"removeComment", "overlap"}
  THEN isCommentRelatedIssue(comment, group) \/ comment.note = "overlap"
  ELSE FALSE

hasSimilarComment(comments, fileName, group) ==
  \E comment \in comments :
     /\ comment.filePath = fileName \/ comment.filePath = 0
     /\ isCommentOverlapping(comment, group.startLine, group.endLine)
     /\ isCommentSimilar(comment, group)

(***************************************************************************)
(* CacheManager.  The cache maps a key to [reviews, timestamp].            *)
(***************************************************************************)
generateCacheKey(fileName, groups) ==
  <<fileName, [i \in 1..Len(groups) |->
                 <<groups[i].startLine, groups[i].endLine, groups[i].content>>]>>

Without(cache, keys) == [k \in (DOMAIN cache) \ keys |-> cache[k]]

\* A variant that still serves an entry whose age equals the expiry.
isFreshInclusive(cache, key, t) ==
  key \in DOMAIN cache /\ t - cache[key].timestamp <= cacheExpiry

isFresh(cache, key, t) ==
  key \in DOMAIN cache /\ t - cache[key].timestamp < cacheExpiry

\* getCachedReview: the value returned ...
getCachedReview(cache, key, t) ==
  IF isFresh(cache, key, t)
  THEN [hit |-> TRUE, reviews |-> cache[key].reviews]
  ELSE [hit |-> FALSE, reviews |-> <<>>]

\* ... and the cache it leaves: a miss deletes the key.
evictOnRead(cache, keys, t) ==
  Without(cache, {k \in keys : ~isFresh(cache, k, t)})

cleanupCache(cache, t) ==
  Without(cache, {k \in DOMAIN cache : t - cache[k].timestamp > cacheExpiry})

cacheReview(cache, key, reviews, t) ==
  LET set == [k \in (DOMAIN cache) \cup {key} |->
                IF k = key THEN [reviews |-> reviews, timestamp |-> t]
                ELSE cache[k]]
  IN IF Cardinality(DOMAIN set) > cacheMaxSize THEN cleanupCache(set, t) ELSE set


(***************************************************************************)
(* State.                                                                  *)
(***************************************************************************)
VARIABLES
  changes,            \* the change-set handed to generateCodeReview
  existingComments,   \* the existing comments handed to the current run
  pc,                 \* generateCodeReview: "idle", "running", "returned", "thrown"
  run,                \* review calls started so far
  chunkIdx,           \* processFilesConcurrently: the chunk being awaited
  status,             \* per significant file: "pending", "running", "done"
  work,               \* per significant file: its batches and their model calls
  fileReviews,        \* processFilesConcurrently: the result list
  sent,               \* history: every model call started in this run
  commentsSeen,       \* history: the comment sets handed to the runs so far
  reviewCache,        \* CacheManager.reviewCache
  now,                \* Date.now(), in ticks
  written,            \* history: per key, the last cacheReview (SpecCache)
  lastRead,           \* history: the last getCachedReview and its answer
  hostComments,       \* the inline comments the host holds: [filePath, line]
  pub,                \* per publisher task: its executeCodeReview frame
  posted,             \* history: every inline comment posted
  input,              \* the arguments of the function under study
  output,             \* its result
  phase,              \* "idle", "input", then the name of the last step
  manager,            \* the ProcessManager instance and its pending timers
  processingTasks,    \* per event handler: its processingTasks map
  executions,         \* the review tasks started, each at its await
  removedTasks        \* history: the records cleanupCompletedTasks deleted

orchVars == <<changes, existingComments, pc, run, chunkIdx, status, work,
              fileReviews, sent, commentsSeen>>

cacheVars == <<reviewCache, now>>

cacheHist == <<written, lastRead>>

pubVars == <<hostComments, pub, posted>>

pureVars == <<input, output, phase>>

mgrVars == <<manager>>

taskVars == <<processingTasks, executions, removedTasks>>

vars == <<orchVars, cacheVars, cacheHist, pubVars, pureVars, mgrVars, taskVars>>

(***************************************************************************)
(* AIApiService: what the two entry points make of a finished model call.  *)
(* ok = FALSE is a call that threw (timeout, HTTP error, malformed body).  *)
(* A settled promise is [st, value].                                       *)
(***************************************************************************)
generateBatchReview(path, groups, ok) ==
  IF ok
  THEN [st |-> "fulfilled",
        value |-> parseBatchReviewResultFast(groups, ModelResponse(path, groups))]
  ELSE [st |-> "fulfilled", value |-> <<>>]

\* generateGroupReview after the model answered, and the result its two
\* callers build from the text.
groupReviewOf(group, reviewText) ==
  IF (\E i \in 1..Len(reviewText) : reviewText[i].text = "PASS")
     \/ TextLength(reviewText) < 10
  THEN <<>>
  ELSE <<MakeResult(group, reviewText)>>

generateGroupReview(path, group, ok) ==
  IF ~ok THEN <<>> ELSE groupReviewOf(group, ModelResponse(path, <<group>>))

(***************************************************************************)
(* AICodeReviewer: the synchronous start of a batch and of a file.         *)
(* A part is one model call: [groups, kind, st, failed, value], st one of  *)
(* "waiting", "inflight", "fulfilled", "rejected".  A batch is [key, mode, *)
(* groups, parts, value, settled], mode one of "cached", "parallel",       *)
(* "fallback", "newfile".                                                  *)
(***************************************************************************)
MakePart(groups, kind, st) ==
  [groups |-> groups, kind |-> kind, st |-> st, failed |-> FALSE, value |-> <<>>]

\* A split that sends the first sub-batch only.
processBatchParallelFirstHalf(path, batch, comments) ==
  LET filteredGroups ==
        SelectSeq(batch, LAMBDA g : ~hasSimilarComment(comments, path, g))
  IN IF filteredGroups = <<>> THEN <<>>
     ELSE IF Len(filteredGroups) <= smallBatchLimit
     THEN <<MakePart(filteredGroups, "batch", "inflight")>>
     ELSE <<MakePart(SubSeq(filteredGroups, 1, (Len(filteredGroups) + 1) \div 2),
                     "batch", "inflight")>>

\* processBatchParallel: drop the duplicates, then one call or two sub-batches.
processBatchParallel(path, batch, comments) ==
  LET filteredGroups ==
        SelectSeq(batch, LAMBDA g : ~hasSimilarComment(comments, path, g))
  IN IF filteredGroups = <<>> THEN <<>>
     ELSE IF Len(filteredGroups) <= smallBatchLimit
     THEN <<MakePart(filteredGroups, "batch", "inflight")>>
     ELSE LET subBatches ==
                chunkArray(filteredGroups, (Len(filteredGroups) + 1) \div 2)
          IN [k \in 1..Len(subBatches) |-> MakePart(subBatches[k], "batch", "inflight")]

\* processBatchWithFallback up to its await.
StartBatch(path, batch, comments, cache, t) ==
  LET key == generateCacheKey(path, batch)
      cached == getCachedReview(cache, key, t)
      parts == processBatchParallel(path, batch, comments)
  IN IF cached.hit
     THEN [key |-> key, mode |-> "cached", groups |-> batch, parts |-> <<>>,
           value |-> cached.reviews, settled |-> TRUE]
     ELSE [key |-> key, mode |-> "parallel", groups |-> batch, parts |-> parts,
           value |-> <<>>, settled |-> (parts = <<>>)]

\* processGroupsInParallel: the batches of a file.
FileBatches(change) == chunkArray(lineGroups(change), maxGroupsPerBatch)

\* generateFileReview up to its await.
StartFile(change, comments, cache, t) ==
  IF isNewFile(change)
  THEN <<[key |-> generateCacheKey(change.new_path, <<>>), mode |-> "newfile",
          groups |-> <<newFileGroup(change)>>,
          parts |-> <<MakePart(<<newFileGroup(change)>>, "group", "inflight")>>,
          value |-> <<>>, settled |-> FALSE]>>
  ELSE LET batches == FileBatches(change)
       IN [b \in 1..Len(batches) |->
             StartBatch(change.new_path, batches[b], comments, cache, t)]

\* The keys a file's start reads from the cache.
KeysRead(change) ==
  IF isNewFile(change) THEN {}
  ELSE {generateCacheKey(change.new_path, FileBatches(change)[b]) :
          b \in 1..Len(FileBatches(change))}

InFlight(batches) ==
  UNION {{<<b, p>> : p \in {q \in 1..Len(batches[b].parts) :
                              batches[b].parts[q].st = "inflight"}} :
           b \in 1..Len(batches)}

CallsOf(path, batches) ==
  {[file |-> path, kind |-> batches[c[1]].parts[c[2]].kind,
    groups |-> batches[c[1]].parts[c[2]].groups] : c \in InFlight(batches)}

AllSettled(batches) == \A b \in 1..Len(batches) : batches[b].settled

(***************************************************************************)
(* Collecting settled promises.                                            *)
(***************************************************************************)
\* for (const result of results) if (fulfilled && value) push(...value)
SettledValues(parts) ==
  Concat([i \in 1..Len(parts) |->
            IF parts[i].st = "fulfilled" THEN parts[i].value ELSE <<>>])

NullFile == [isNull |-> TRUE, filePath |-> 0, review |-> <<>>]

\* processSingleFile after generateFileReview returned.
FileValue(change, batches) ==
  LET fileReview == Concat([b \in 1..Len(batches) |-> batches[b].value])
      meaningfulReviews == filterMeaningfulReviews(fileReview)
  IN IF meaningfulReviews # <<>>
     THEN [isNull |-> FALSE, filePath |-> change.new_path,
           review |-> meaningfulReviews]
     ELSE NullFile

\* processFilesConcurrently: what a settled chunk adds to fileReviews.
CollectChunkNoNullCheck(values) == values

CollectChunk(values) == SelectSeq(values, LAMBDA v : ~v.isNull)

\* processFilesConcurrently: the chunks of significant files.
FileChunksByAI(sig) == chunkArray(IdxSeq(Len(sig)), maxConcurrentAI)

FileChunks(sig) == chunkArray(IdxSeq(Len(sig)), maxConcurrentFiles)


(***************************************************************************)
(* The orchestrator as a function on its frame                             *)
(* st = [work, status, chunkIdx, fileReviews, sent, cache, pc].            *)
(***************************************************************************)
\* generateCodeReview: changes.filter(FileFilter.isSignificantChange)
significantChanges == SelectSeq(changes, LAMBDA c : c.significant)

\* chunk.map(processSingleFile): every file of chunk k runs up to its awaits.
BeginChunk(st, k, sig, comments, t) ==
  LET cur == Range(FileChunks(sig)[k])
      started == [f \in cur |-> StartFile(sig[f], comments, st.cache, t)]
  IN [st EXCEPT
        !.chunkIdx = k,
        !.work = [f \in DOMAIN st.work |->
                    IF f \in cur THEN started[f] ELSE st.work[f]],
        !.status = [f \in DOMAIN st.status |->
                      IF f \in cur
                      THEN IF AllSettled(started[f]) THEN "done" ELSE "running"
                      ELSE st.status[f]],
        !.cache = evictOnRead(st.cache, UNION {KeysRead(sig[f]) : f \in cur}, t),
        !.sent = st.sent \cup
                 UNION {CallsOf(sig[f].new_path, started[f]) : f \in cur}]

\* await Promise.allSettled(chunkPromises), the loop over its results, and the
\* next chunk or the return.
RECURSIVE Advance(_, _, _, _)
Advance(st, sig, comments, t) ==
  LET chunks == FileChunks(sig)
      cur == chunks[st.chunkIdx]
      collected ==
        st.fileReviews \o
        CollectChunk([i \in 1..Len(cur) |-> FileValue(sig[cur[i]], st.work[cur[i]])])
  IN IF \E f \in Range(cur) : st.status[f] # "done" THEN st
     ELSE IF st.chunkIdx = Len(chunks)
     THEN [st EXCEPT !.fileReviews = collected, !.pc = "returned"]
     ELSE Advance(BeginChunk([st EXCEPT !.fileReviews = collected],
                             st.chunkIdx + 1, sig, comments, t),
                  sig, comments, t)

\* processGroupsIndividually: one call per group of the batch, in sequence.
StartFallback(batch) ==
  [batch EXCEPT
     !.mode = "fallback",
     !.parts = [i \in 1..Len(batch.groups) |->
                  MakePart(<<batch.groups[i]>>, "group",
                           IF i = 1 THEN "inflight" ELSE "waiting")]]

\* A variant that also falls back when the batch returned no result.
batchThrewOrEmpty(parts) ==
  \/ Len(parts) = 1 /\ parts[1].st = "rejected"
  \/ SettledValues(parts) = <<>>

\* processBatchWithFallback, catch: the awaited processBatchParallel throws
\* only when its single batched call rejects; sub-batches are collected with
\* Promise.allSettled.
batchThrew(parts) == Len(parts) = 1 /\ parts[1].st = "rejected"

\* A finished model call: the continuation of the batch that awaited it.
\* Returns the batch and the cache after it.
SettlePart(path, batch, p, ok, cache, t) ==
  LET part == batch.parts[p]
      single == generateGroupReview(path, part.groups[1], ok)
      out == generateBatchReview(path, part.groups, ok)
      parts1 == [batch.parts EXCEPT
                   ![p] = IF part.kind = "group"
                          THEN [part EXCEPT !.st = "fulfilled", !.failed = ~ok,
                                            !.value = single]
                          ELSE [part EXCEPT !.st = out.st, !.failed = ~ok,
                                            !.value = out.value]]
      allDone == \A i \in 1..Len(parts1) : parts1[i].st \in {"fulfilled", "rejected"}
      reviews == SettledValues(parts1)
  IN CASE batch.mode = "newfile" ->
            [batch |-> [batch EXCEPT !.parts = parts1, !.value = single,
                                     !.settled = TRUE],
             cache |-> cache]
       [] batch.mode = "fallback" ->
            [batch |-> IF p < Len(parts1)
                       THEN [batch EXCEPT
                               !.parts = [parts1 EXCEPT ![p + 1].st = "inflight"]]
                       ELSE [batch EXCEPT !.parts = parts1, !.value = reviews,
                                          !.settled = TRUE],
             cache |-> cache]
       [] OTHER ->
            IF ~allDone
            THEN [batch |-> [batch EXCEPT !.parts = parts1], cache |-> cache]
            ELSE IF batchThrew(parts1)
            THEN [batch |-> StartFallback([batch EXCEPT !.parts = parts1]),
                  cache |-> cache]
            ELSE [batch |-> [batch EXCEPT !.parts = parts1, !.value = reviews,
                                          !.settled = TRUE],
                  cache |-> IF reviews # <<>>
                            THEN cacheReview(cache, batch.key, reviews, t)
                            ELSE cache]

OnReturn(st, f, b, p, ok, sig, comments, t) ==
  LET r == SettlePart(sig[f].new_path, st.work[f][b], p, ok, st.cache, t)
      batches == [st.work[f] EXCEPT ![b] = r.batch]
      st1 == [st EXCEPT
                !.work = [st.work EXCEPT ![f] = batches],
                !.cache = r.cache,
                !.sent = st.sent \cup CallsOf(sig[f].new_path, batches),
                !.status = [st.status EXCEPT
                              ![f] = IF AllSettled(batches) THEN "done" ELSE "running"]]
  IN Advance(st1, sig, comments, t)

Frame ==
  [work |-> work, status |-> status, chunkIdx |-> chunkIdx,
   fileReviews |-> fileReviews, sent |-> sent, cache |-> reviewCache, pc |-> pc]

SetFrame(st) ==
  /\ work' = st.work
  /\ status' = st.status
  /\ chunkIdx' = st.chunkIdx
  /\ fileReviews' = st.fileReviews
  /\ sent' = st.sent
  /\ reviewCache' = st.cache
  /\ pc' = st.pc

(***************************************************************************)
(* Inputs.                                                                 *)
(***************************************************************************)
UnitChoices == {1, 4, MaxUnits}

Shapes ==
  {[kind |-> "skip", units |-> 1], [kind |-> "new", units |-> 2]}
  \cup {[kind |-> "mod", units |-> u] : u \in UnitChoices}

MakeChange(i, shape) ==
  [new_path |-> i, old_path |-> IF shape.kind = "new" THEN 0 ELSE i,
   onlyAdded |-> FALSE, significant |-> shape.kind # "skip",
   units |-> shape.units]

ModUnits(shapes) ==
  SumSeq([i \in 1..Len(shapes) |->
            IF shapes[i].kind = "mod" THEN shapes[i].units ELSE 0])

ChangeSets ==
  {[i \in 1..MaxFiles |-> MakeChange(i, shapes[i])] :
     shapes \in {s \in [1..MaxFiles -> Shapes] : ModUnits(s) <= MaxUnits}}

lineComment ==
  [filePath |-> 1, line |-> 5, startLine |-> 5, endLine |-> 5,
   note |-> "removeComment"]

otherComment ==
  [filePath |-> 2, line |-> 1, startLine |-> 1, endLine |-> 1, note |-> "other"]

generalComment ==
  [filePath |-> 0, line |-> 0, startLine |-> 0, endLine |-> 0, note |-> "overlap"]

CommentSets == {{}, {lineComment, otherComment}, {generalComment}}

(***************************************************************************)
(* Actions of the orchestrator.                                            *)
(***************************************************************************)
OrchIdle ==
  /\ existingComments = {}
  /\ pc = "idle"
  /\ run = 0
  /\ chunkIdx = 0
  /\ status = <<>>
  /\ work = <<>>
  /\ fileReviews = <<>>
  /\ sent = {}
  /\ commentsSeen = {}

CacheIdle == reviewCache = <<>> /\ now = 0

HistIdle == written = <<>> /\ lastRead = <<>>

PubIdle == hostComments = {} /\ pub = <<>> /\ posted = <<>>

PureIdle == input = <<>> /\ output = <<>> /\ phase = "idle"

MgrIdle == manager = <<>>

TaskIdle == processingTasks = <<>> /\ executions = <<>> /\ removedTasks = {}

\* generateCodeReview(changes, existingComments)
StartReview(comments) ==
  /\ pc \in {"idle", "returned"}
  /\ run < MaxRuns
  /\ run' = run + 1
  /\ existingComments' = comments
  /\ commentsSeen' = commentsSeen \cup {comments}
  /\ LET sig == significantChanges
         st0 == [work |-> [f \in 1..Len(sig) |-> <<>>],
                 status |-> [f \in 1..Len(sig) |-> "pending"],
                 chunkIdx |-> 0, fileReviews |-> <<>>, sent |-> {},
                 cache |-> reviewCache, pc |-> "running"]
     IN SetFrame(IF sig = <<>> THEN [st0 EXCEPT !.pc = "returned"]
                 ELSE Advance(BeginChunk(st0, 1, sig, comments, now),
                              sig, comments, now))
  /\ UNCHANGED <<changes, now, cacheHist, pubVars, pureVars,
                 mgrVars, taskVars>>

\* A model call of file f, batch b, part p returns (ok) or throws (~ok).
CallReturns(f, b, p, ok) ==
  /\ pc = "running"
  /\ SetFrame(OnReturn(Frame, f, b, p, ok, significantChanges,
                       existingComments, now))
  /\ UNCHANGED <<changes, existingComments, commentsSeen, run, now, cacheHist,
                 pubVars, pureVars,
                 mgrVars, taskVars>>

Init ==
  /\ changes \in ChangeSets
  /\ OrchIdle
  /\ CacheIdle
  /\ HistIdle
  /\ MgrIdle
  /\ TaskIdle
  /\ PubIdle
  /\ PureIdle

Next ==
  \/ \E comments \in CommentSets : StartReview(comments)
  \/ \E f \in DOMAIN work, ok \in BOOLEAN :
       \E c \in InFlight(work[f]) : CallReturns(f, c[1], c[2], ok)

Spec == Init /\ [][Next]_vars


(***************************************************************************)
(* Properties of the orchestrator.                                         *)
(***************************************************************************)
PartsOf(f) ==
  UNION {{work[f][b].parts[p] : p \in 1..Len(work[f][b].parts)} :
           b \in 1..Len(work[f])}

AllParts == UNION {PartsOf(f) : f \in DOMAIN work}

Finished == pc \in {"returned", "thrown"}

GroupCall(path, group) == [file |-> path, kind |-> "group", groups |-> <<group>>]

\* C1: once the run has finished, every batch whose batched model call failed
\* has had each of its groups reprocessed by an individual model call.
C1_FailedBatchReprocessed ==
  Finished =>
    \A f \in DOMAIN work : \A part \in PartsOf(f) :
       (part.kind = "batch" /\ part.failed) =>
          \A i \in 1..Len(part.groups) :
             GroupCall(significantChanges[f].new_path, part.groups[i]) \in sent

\* The results a file's successful calls and cache hits produced and that pass
\* the quality filter on their own.
Meaningful(results) ==
  {results[i] : i \in {j \in 1..Len(results) :
                         filterMeaningfulReviews(<<results[j]>>) # <<>>}}

Produced(f) ==
  UNION ({Meaningful(part.value) : part \in {q \in PartsOf(f) : ~q.failed}}
         \cup {Meaningful(work[f][b].value) : b \in 1..Len(work[f])})

Published(path) ==
  UNION {Range(fileReviews[i].review) :
           i \in {j \in 1..Len(fileReviews) : fileReviews[j].filePath = path}}

\* C2: a failed call is absorbed.  The review call never throws; when it
\* returns, every significant file and every model call has been processed,
\* every entry of the result list is a file review with results, and no result
\* of a successful call or of a cache hit is missing from the list.
C2_FailuresAbsorbed ==
  /\ pc # "thrown"
  /\ pc = "returned" =>
       /\ \A f \in DOMAIN status : status[f] = "done"
       /\ \A part \in AllParts : part.st \in {"fulfilled", "rejected"}
       /\ \A i \in 1..Len(fileReviews) :
            ~fileReviews[i].isNull /\ fileReviews[i].review # <<>>
       /\ \A f \in DOMAIN work :
            Produced(f) \subseteq Published(significantChanges[f].new_path)

\* A run returned in which a call failed, in a file that still has results and
\* beside a file that has results.
C2_Witness ==
  /\ pc = "returned"
  /\ Len(fileReviews) >= 2
  /\ \E f \in DOMAIN work :
       /\ \E part \in PartsOf(f) : part.failed
       /\ Produced(f) # {}

\* C3: no file has more model calls in flight than maxConcurrentAI.
C3_ModelCallsBounded ==
  \A f \in DOMAIN work : Cardinality(InFlight(work[f])) <= maxConcurrentAI

Running == {f \in DOMAIN status : status[f] = "running"}

C5_DuplicatesNeverSent ==
  \A call \in sent : \A i \in 1..Len(call.groups) :
     ~hasSimilarComment(existingComments, call.file, call.groups[i])

\* What a run over an empty cache returns when no call fails.
ColdBatchValue(path, batch) ==
  IF batch.mode = "newfile"
  THEN generateGroupReview(path, batch.groups[1], TRUE)
  ELSE SettledValues([p \in 1..Len(batch.parts) |->
         [batch.parts[p] EXCEPT
            !.st = "fulfilled",
            !.value = generateBatchReview(path, batch.parts[p].groups, TRUE).value]])

ColdFileValue(change, comments) ==
  LET started == StartFile(change, comments, <<>>, now)
  IN FileValue(change,
       [b \in 1..Len(started) |->
          [started[b] EXCEPT !.value = ColdBatchValue(change.new_path, started[b])]])

ColdReview(sig, comments) ==
  CollectChunk([f \in 1..Len(sig) |-> ColdFileValue(sig[f], comments)])

\* C6: with the same change-set and the same existing comments in every run,
\* a run in which no call fails returns what it would return over an empty
\* cache, whatever the earlier runs left in the cache.
C6_WarmEqualsCold ==
  (/\ pc = "returned"
   /\ commentsSeen = {existingComments}
   /\ \A part \in AllParts : ~part.failed) =>
     fileReviews = ColdReview(significantChanges, existingComments)

\* C9: a run in which every model call failed ends by throwing.
C9_TotalFailureThrows ==
  (Finished /\ AllParts # {} /\ \A part \in AllParts : part.failed) =>
     pc = "thrown"

(***************************************************************************)
(* The cache on its own: any caller may write, read and let time pass.     *)
(***************************************************************************)
CacheKeys == {generateCacheKey(k, <<MakeGroup(1)>>) : k \in 1..MaxKeys}

CacheValues ==
  {<<MakeResult(MakeGroup(1), <<[num |-> 0, text |-> t]>>)>> : t \in {"good", "low"}}

\* cacheReview(cacheKey, reviews)
CacheWrite(key, reviews) ==
  /\ reviewCache' = cacheReview(reviewCache, key, reviews, now)
  /\ written' = [k \in (DOMAIN written) \cup {key} |->
                   IF k = key
                   THEN [reviews |-> reviews, at |-> now,
                         writes |-> IF key \in DOMAIN written
                                    THEN Min(written[key].writes + 1, 2) ELSE 1]
                   ELSE written[k]]
  /\ UNCHANGED <<orchVars, now, lastRead, pubVars, pureVars,
                 mgrVars, taskVars>>

\* getCachedReview(cacheKey)
CacheRead(key) ==
  /\ reviewCache' = evictOnRead(reviewCache, {key}, now)
  /\ lastRead' = [key |-> key, at |-> now,
                  result |-> getCachedReview(reviewCache, key, now),
                  wrote |-> IF key \in DOMAIN written THEN <<written[key]>>
                            ELSE <<>>,
                  found |-> key \in DOMAIN reviewCache,
                  kept |-> key \in DOMAIN reviewCache']
  /\ UNCHANGED <<orchVars, now, written, pubVars, pureVars,
                 mgrVars, taskVars>>

\* Date.now() advances.
Tick ==
  /\ now < MaxClock
  /\ now' = now + 1
  /\ UNCHANGED <<orchVars, reviewCache, cacheHist, pubVars, pureVars,
                 mgrVars, taskVars>>

InitCache ==
  /\ changes = <<>>
  /\ OrchIdle
  /\ CacheIdle
  /\ HistIdle
  /\ MgrIdle
  /\ TaskIdle
  /\ PubIdle
  /\ PureIdle

NextCache ==
  \/ \E key \in CacheKeys, reviews \in CacheValues : CacheWrite(key, reviews)
  \/ \E key \in CacheKeys : CacheRead(key)
  \/ Tick

SpecCache == InitCache /\ [][NextCache]_vars

\* C7: a read returns the results most recently written for its key exactly
\* when less than the expiry has elapsed since that write; otherwise it returns
\* null and leaves the key out of the cache.
C7_ReadWithinExpiry ==
  lastRead # <<>> =>
    LET wrote == lastRead.wrote
        live == wrote # <<>> /\ lastRead.at - wrote[1].at < cacheExpiry
    IN IF live
       THEN lastRead.result = [hit |-> TRUE, reviews |-> wrote[1].reviews]
       ELSE lastRead.result.hit = FALSE /\ ~lastRead.kept

\* A key written twice with different results has been read within the expiry
\* of its second write.
C7_Witness ==
  /\ lastRead # <<>>
  /\ lastRead.result.hit
  /\ lastRead.wrote # <<>>
  /\ lastRead.wrote[1].writes >= 2
  /\ lastRead.at > lastRead.wrote[1].at

\* A key has been read once its expiry had passed; the read found the entry
\* and removed it.
C7_WitnessExpired ==
  /\ lastRead # <<>>
  /\ lastRead.wrote # <<>>
  /\ lastRead.at - lastRead.wrote[1].at >= cacheExpiry
  /\ lastRead.found
  /\ ~lastRead.kept

\* C8: the cache never holds more than cacheMaxSize entries.
C8_CacheSizeBounded == Cardinality(DOMAIN reviewCache) <= cacheMaxSize

(***************************************************************************)
(* SimpleGitlabCR.executeCodeReview.  Each merge-request event starts one  *)
(* publishing task (handleMergeRequestEvent does not wait for the previous *)
(* one); a task is suspended at each request to the host.                  *)
(***************************************************************************)
Publishers == 1..NumPublishers

\* The file reviews handed to the publisher: orchestrator results for two files.
PubFileReview(path, n) ==
  [filePath |-> path,
   review |-> [i \in 1..n |->
                 MakeResult(MakeGroup(i), <<[num |-> 0, text |-> "good"]>>)]]

PubReviews == <<PubFileReview(1, 3), PubFileReview(2, 1)>>

InlineComment(path, line) == [filePath |-> path, line |-> line]

hasCommentOnLine(comments, filePath, lineNumber) ==
  \E comment \in comments :
     comment.filePath = filePath /\ comment.line = lineNumber

\* The two loops of executeCodeReview, run from position (fi, li) up to the
\* next postInlineComment or to the end.
RECURSIVE RunLoops(_)
RunLoops(fr) ==
  IF fr.fi > Len(PubReviews) THEN [fr EXCEPT !.pc = "done"]
  ELSE LET fileReview == PubReviews[fr.fi]
           nextFile == [fr EXCEPT !.fi = @ + 1, !.li = 1, !.fileCommentCount = 0]
       IN IF fr.li > Len(fileReview.review) THEN RunLoops(nextFile)
          ELSE LET lineReview == fileReview.review[fr.li]
               IN IF ~lineReview.isGroupEnd
                  THEN RunLoops([fr EXCEPT !.li = @ + 1])
                  ELSE IF fr.fileCommentCount >= MAX_COMMENTS_PER_FILE
                  THEN RunLoops(nextFile)
                  ELSE IF hasCommentOnLine(fr.existingComments,
                                           fileReview.filePath,
                                           lineReview.lineNumber)
                  THEN RunLoops([fr EXCEPT !.li = @ + 1, !.skipCount = @ + 1])
                  ELSE [fr EXCEPT !.pc = "postInlineComment"]

IdleFrame ==
  [pc |-> "idle", hasChanges |-> FALSE, existingComments |-> {}, fi |-> 1,
   li |-> 1, fileCommentCount |-> 0, skipCount |-> 0]

\* executeCodeReview is called and requests the merge request's changes.
ExecuteCodeReview(p) ==
  /\ pub[p].pc = "idle"
  /\ pub' = [pub EXCEPT ![p].pc = "getMRChanges"]
  /\ UNCHANGED <<orchVars, pureVars, cacheVars, cacheHist, hostComments, posted,
                 mgrVars, taskVars>>

\* getMRChanges answers: the changes, the skip marker, or [] after an error.
GetMRChangesReturns(p, outcome) ==
  /\ pub[p].pc = "getMRChanges"
  /\ pub' = [pub EXCEPT ![p] =
               IF outcome = "skipReview" THEN [@ EXCEPT !.pc = "done"]
               ELSE [@ EXCEPT !.pc = "getExistingComments",
                              !.hasChanges = (outcome = "changes")]]
  /\ UNCHANGED <<orchVars, pureVars, cacheVars, cacheHist, hostComments, posted,
                 mgrVars, taskVars>>

\* getExistingComments answers: the host's comments, or [] after an error.
GetExistingCommentsReturns(p, ok) ==
  /\ pub[p].pc = "getExistingComments"
  /\ LET fr == [pub[p] EXCEPT
                  !.existingComments = IF ok THEN hostComments ELSE {}]
     IN pub' = [pub EXCEPT ![p] = IF fr.hasChanges THEN RunLoops(fr)
                                  ELSE [fr EXCEPT !.pc = "done"]]
  /\ UNCHANGED <<orchVars, pureVars, cacheVars, cacheHist, hostComments, posted,
                 mgrVars, taskVars>>

\* postInlineComment answers: the host stored the comment, or the call failed.
PostInlineCommentReturns(p, ok) ==
  /\ pub[p].pc = "postInlineComment"
  /\ LET fr == pub[p]
         filePath == PubReviews[fr.fi].filePath
         lineNumber == PubReviews[fr.fi].review[fr.li].lineNumber
         comment == InlineComment(filePath, lineNumber)
     IN /\ hostComments' = IF ok THEN hostComments \cup {comment}
                           ELSE hostComments
        /\ posted' = IF ok
                     THEN Append(posted,
                                 [filePath |-> filePath, line |-> lineNumber,
                                  by |-> p,
                                  lineHadComment |-> comment \in hostComments])
                     ELSE posted
        /\ pub' = [pub EXCEPT ![p] =
                     RunLoops([fr EXCEPT
                                 !.li = @ + 1,
                                 !.fileCommentCount = IF ok THEN @ + 1 ELSE @])]
  /\ UNCHANGED <<orchVars, pureVars, cacheVars, cacheHist,
                 mgrVars, taskVars>>

HostCommentSets == SUBSET {InlineComment(1, 2), InlineComment(2, 2)}

InitPublisher ==
  /\ changes = <<>>
  /\ OrchIdle
  /\ CacheIdle
  /\ HistIdle
  /\ MgrIdle
  /\ TaskIdle
  /\ hostComments \in HostCommentSets
  /\ pub = [p \in Publishers |-> IdleFrame]
  /\ posted = <<>>
  /\ PureIdle

NextPublisher ==
  \E p \in Publishers :
     \/ ExecuteCodeReview(p)
     \/ \E outcome \in {"changes", "skipReview", "error"} :
          GetMRChangesReturns(p, outcome)
     \/ \E ok \in BOOLEAN : GetExistingCommentsReturns(p, ok)
     \/ \E ok \in BOOLEAN : PostInlineCommentReturns(p, ok)

SpecPublisher == InitPublisher /\ [][NextPublisher]_vars

\* C10: no inline comment is posted on a line that carries a comment when the
\* host stores it.
C10_NoPostOnCommentedLine ==
  \A i \in 1..Len(posted) : ~posted[i].lineHadComment

(***************************************************************************)
(* The batch result parser on its own: any reply of at most MaxReplyLines  *)
(* non-blank lines for a batch of at most MaxGroups groups.  A batch may   *)
(* hold a group without lines, which the grouper never produces and the    *)
(* parser's try block does not survive.                                    *)
(***************************************************************************)
ReplyLines ==
  {[num |-> n, text |-> t] : n \in 0..MaxNum, t \in {"PASS", "good", "short", ""}}
  \ {[num |-> 0, text |-> ""]}

Replies == UNION {[1..n -> ReplyLines] : n \in 0..MaxReplyLines}

EmptyGroup(i) == [MakeGroup(i) EXCEPT !.size = 0]

Batches ==
  UNION {{[i \in 1..n |-> MakeGroup(i)],
          [i \in 1..n |-> IF i = 1 THEN EmptyGroup(i) ELSE MakeGroup(i)],
          [i \in 1..n |-> IF i = n THEN EmptyGroup(i) ELSE MakeGroup(i)]} :
           n \in 1..MaxGroups}

WellFormed(groups) == \A i \in 1..Len(groups) : groups[i].size > 0

\* generateBatchReview: parseBatchReviewResultFast(fileName, groups, reviewText)
ParseReply ==
  /\ phase = "input"
  /\ output' = catchParse(tryParse(input.groups, input.reviewText))
  /\ phase' = "parsed"
  /\ UNCHANGED <<orchVars, cacheVars, cacheHist, pubVars, input,
                 mgrVars, taskVars>>

\* processGroupsIndividually / reviewNewFile: one group, its own reply.
ReviewGroup ==
  /\ phase = "input"
  /\ Len(input.groups) = 1
  /\ WellFormed(input.groups)
  /\ output' = [threw |-> FALSE,
                reviews |-> groupReviewOf(input.groups[1], input.reviewText)]
  /\ phase' = "reviewed"
  /\ UNCHANGED <<orchVars, cacheVars, cacheHist, pubVars, input,
                 mgrVars, taskVars>>

\* processSingleFile: filterMeaningfulReviews(fileReview)
FilterReviews ==
  /\ phase \in {"parsed", "reviewed"}
  /\ output' = [output EXCEPT !.reviews = filterMeaningfulReviews(@)]
  /\ phase' = "filtered"
  /\ UNCHANGED <<orchVars, cacheVars, cacheHist, pubVars, input,
                 mgrVars, taskVars>>

InitParser ==
  /\ changes = <<>>
  /\ OrchIdle
  /\ CacheIdle
  /\ HistIdle
  /\ MgrIdle
  /\ TaskIdle
  /\ PubIdle
  /\ input \in [groups : Batches, reviewText : Replies]
  /\ output = <<>>
  /\ phase = "input"

NextParser == ParseReply \/ ReviewGroup \/ FilterReviews

SpecParser == InitParser /\ [][NextParser]_vars

\* The model answered PASS for the n-th group of the batch: the reply has
\* lines numbered n and each of them holds the sentinel.
AnsweredPass(reviewText, n) ==
  /\ \E i \in 1..Len(reviewText) : reviewText[i].num = n
  /\ \A i \in 1..Len(reviewText) :
       reviewText[i].num = n => reviewText[i].text = "PASS"

GroupIndex(groups, id) == CHOOSE n \in 1..Len(groups) : groups[n].id = id

\* C11: neither the parser output nor the filtered file review holds a result
\* for a group for which the model answered PASS.
C11_NoResultForPass ==
  (phase \in {"parsed", "reviewed", "filtered"} /\ WellFormed(input.groups)) =>
     \A k \in 1..Len(output.reviews) :
        ~AnsweredPass(input.reviewText,
                      GroupIndex(input.groups, output.reviews[k].groupId))

\* C12: every line "N. text" of a reply the parser works on, with N the number
\* of a group sent and a text that is not PASS, gives a result with that text
\* for the N-th group, anchored at the group's last line.
C12_NumberedLineToItsGroup ==
  (/\ phase = "parsed"
   /\ WellFormed(input.groups)
   /\ TextLength(input.reviewText) > 10) =>
     \A i \in 1..Len(input.reviewText) :
        LET line == input.reviewText[i]
        IN (line.num \in 1..Len(input.groups) /\ line.text \notin {"PASS", ""}) =>
              \E k \in 1..Len(output.reviews) :
                 /\ output.reviews[k].groupId = input.groups[line.num].id
                 /\ output.reviews[k].lineNumber = input.groups[line.num].endLine
                 /\ output.reviews[k].review = <<[num |-> 0, text |-> line.text]>>

NumberedParseEmpty == ParseByPosition(input.groups, input.reviewText) = <<>>

FallbackResult ==
  output.reviews = <<MakeResult(input.groups[1], input.reviewText)>>

C14_ParserNeverThrows ==
  phase = "parsed" =>
    /\ ~output.threw
    /\ Len(output.reviews) <= Len(input.groups)
    /\ Len(output.reviews) <= Len(input.reviewText)

\* The parser has returned from a reply that has more lines than there are
\* groups, an unnumbered line and a number no group has.
C14_Witness ==
  /\ phase = "parsed"
  /\ WellFormed(input.groups)
  /\ Len(input.reviewText) > Len(input.groups)
  /\ \E i \in 1..Len(input.reviewText) : input.reviewText[i].num = 0
  /\ \E i \in 1..Len(input.reviewText) :
       input.reviewText[i].num > Len(input.groups)
  /\ ~output.threw

\* The try block has failed on a group without lines and the parser returned.
C14_WitnessCaught ==
  /\ phase = "parsed"
  /\ tryParse(input.groups, input.reviewText).threw
  /\ ~output.threw

(***************************************************************************)
(* CodeProcessor.parseDiffLines.  A diff is a sequence of lines           *)
(* [kind, c, content]; the kind is what the parser's prefix tests see:     *)
(* "@@" a hunk header "@@ -a,b +c,d @@", "+" an added line, "+++" an added *)
(* line whose text begins with "++", "-" a removed line, "---" a removed   *)
(* line whose text begins with "--", " " a context line and "\" the marker *)
(* "\ No newline at end of file".                                          *)
(***************************************************************************)
AddedKinds == {"+", "+++"}

RemovedKinds == {"-", "---"}

\* currentLineNumber after the first i lines of the diff.
RECURSIVE CounterAfterCountingRemoved(_, _)
CounterAfterCountingRemoved(diff, i) ==
  IF i = 0 THEN 0
  ELSE LET line == diff[i]
           before == CounterAfterCountingRemoved(diff, i - 1)
       IN IF line.kind = "@@" THEN line.c
          ELSE IF line.kind \in {"+++", "---"} THEN before
          ELSE before + 1

RECURSIVE CounterAfter(_, _)
CounterAfter(diff, i) ==
  IF i = 0 THEN 0
  ELSE LET line == diff[i]
           before == CounterAfter(diff, i - 1)
       IN IF line.kind = "@@" THEN line.c
          ELSE IF line.kind = "+" THEN before + 1
          ELSE IF line.kind = "-" THEN before
          ELSE IF line.kind \notin {"---", "+++"} THEN before + 1
          ELSE before

\* The positions of the lines the parser emits.
EmittedAt(diff) == SelectSeq(IdxSeq(Len(diff)), LAMBDA i : diff[i].kind = "+")

parseDiffLines(diff) ==
  LET at == EmittedAt(diff)
  IN [k \in 1..Len(at) |->
        [type |-> "added", lineNumber |-> CounterAfter(diff, at[k] - 1),
         content |-> diff[at[k]].content]]

\* The number of new-file lines that the first i lines of the diff cover, as
\* the unified format defines it: a header starts at c, added and context
\* lines are lines of the new file, removed lines and the marker are not.
RECURSIVE NewFileLineAfter(_, _)
NewFileLineAfter(diff, i) ==
  IF i = 0 THEN 0
  ELSE LET line == diff[i]
           before == NewFileLineAfter(diff, i - 1)
       IN IF line.kind = "@@" THEN line.c
          ELSE IF line.kind \in AddedKinds \cup {" "} THEN before + 1
          ELSE before

DiffLineKinds ==
  {[kind |-> k, c |-> 0, content |-> "code"] :
     k \in AddedKinds \cup RemovedKinds \cup {" ", "\\"}}
  \cup {[kind |-> "@@", c |-> c, content |-> ""] : c \in 1..MaxHunkStart}

\* A well-formed diff starts with a hunk header; a later header starts beyond
\* the lines of the hunk before it; the marker follows the last line of the
\* old file (then only added lines follow) or ends the diff.
WellFormedDiff(diff) ==
  /\ Len(diff) >= 1
  /\ diff[1].kind = "@@"
  /\ \A i \in 2..Len(diff) :
       /\ diff[i].kind = "@@" =>
            /\ diff[i].c > NewFileLineAfter(diff, i - 1)
            /\ diff[i - 1].kind # "@@"
       /\ diff[i].kind = "\\" =>
            /\ diff[i - 1].kind \notin {"@@", "\\"}
            /\ IF diff[i - 1].kind \in RemovedKinds
               THEN \A j \in (i + 1)..Len(diff) :
                      \/ diff[j].kind \in AddedKinds
                      \/ diff[j].kind = "\\" /\ j = Len(diff)
               ELSE i = Len(diff)

Diffs ==
  {diff \in UNION {[1..n -> DiffLineKinds] : n \in 1..MaxDiffLines} :
     WellFormedDiff(diff)}

\* generateFileReview: CodeProcessor.parseDiffLines(diff)
ParseDiff ==
  /\ phase = "input"
  /\ output' = parseDiffLines(input)
  /\ phase' = "parsed"
  /\ UNCHANGED <<orchVars, cacheVars, cacheHist, pubVars, input,
                 mgrVars, taskVars>>

InitDiff ==
  /\ changes = <<>>
  /\ OrchIdle
  /\ CacheIdle
  /\ HistIdle
  /\ MgrIdle
  /\ TaskIdle
  /\ PubIdle
  /\ input \in Diffs
  /\ output = <<>>
  /\ phase = "input"

NextDiff == ParseDiff

SpecDiff == InitDiff /\ [][NextDiff]_vars

\* C15: every emitted line carries the number the line has in the new file.
C15_NewFileLineNumbers ==
  phase = "parsed" =>
    \A k \in 1..Len(output) :
       output[k].lineNumber = NewFileLineAfter(input, EmittedAt(input)[k] - 1)

Between(diff, k) == (EmittedAt(diff)[k] + 1)..(EmittedAt(diff)[k + 1] - 1)

NoHeaderBetween(diff, k) == \A i \in Between(diff, k) : diff[i].kind # "@@"

\* C16 as stated: two lines emitted one after the other with no hunk header
\* between them have numbers that differ by exactly 1.
C16_ConsecutiveDifferByOne ==
  phase = "parsed" =>
    \A k \in 1..(Len(output) - 1) :
       NoHeaderBetween(input, k) =>
          output[k + 1].lineNumber = output[k].lineNumber + 1

\* C16, amended: with no hunk header between them the numbers increase, and
\* they differ by exactly 1 when nothing but removed lines lies between the
\* two lines in the diff.
C16_IncreasingAndAdjacentByOne ==
  phase = "parsed" =>
    \A k \in 1..(Len(output) - 1) :
       NoHeaderBetween(input, k) =>
          /\ output[k + 1].lineNumber > output[k].lineNumber
          /\ (\A i \in Between(input, k) : input[i].kind \in RemovedKinds) =>
                output[k + 1].lineNumber = output[k].lineNumber + 1

\* Two added lines with a removed line between them have been emitted.
C16_Witness ==
  /\ phase = "parsed"
  /\ \E k \in 1..(Len(output) - 1) :
       /\ Between(input, k) # {}
       /\ \A i \in Between(input, k) : input[i].kind = "-"
       /\ output[k + 1].lineNumber = output[k].lineNumber + 1

(***************************************************************************)
(* CodeProcessor.groupLines.  An added line is [lineNumber, content]; the  *)
(* content is kept as what the boundary tests read of it: "function" (a    *)
(* function start), "class" (a class, interface, type or enum start),      *)
(* "comment" (a block comment opening or closing) or "code" (none).  A     *)
(* group is [id, lines, startLine, endLine, type].                         *)
(***************************************************************************)
createNewGroup(line, id) ==
  [id |-> id, lines |-> <<line>>, startLine |-> line.lineNumber,
   endLine |-> line.lineNumber, type |-> "added"]

addLineToGroup(group, line) ==
  [group EXCEPT !.lines = Append(@, line), !.endLine = line.lineNumber]

shouldStartNewGroupBasic(currentLine, lastLine, currentGroup) ==
  currentLine.lineNumber # lastLine.lineNumber + 1

isFunctionStart(currentContent) == currentContent = "function"

isClassObjectStart(currentContent) == currentContent = "class"

isCommentBlockBoundary(currentContent, lastContent) == currentContent = "comment"

\* The smart rule without its size test.
shouldStartNewGroupNoLimit(currentLine, lastLine, currentGroup) ==
  IF currentLine.lineNumber # lastLine.lineNumber + 1 THEN TRUE
  ELSE IF isFunctionStart(currentLine.content) THEN TRUE
  ELSE IF isClassObjectStart(currentLine.content) THEN TRUE
  ELSE isCommentBlockBoundary(currentLine.content, lastLine.content)

shouldStartNewGroup(currentLine, lastLine, currentGroup) ==
  IF currentLine.lineNumber # lastLine.lineNumber + 1 THEN TRUE
  ELSE IF Len(currentGroup.lines) >= maxLinesPerGroup THEN TRUE
  ELSE IF isFunctionStart(currentLine.content) THEN TRUE
  ELSE IF isClassObjectStart(currentLine.content) THEN TRUE
  ELSE isCommentBlockBoundary(currentLine.content, lastLine.content)

\* The loop of groupLines from line i on.
RECURSIVE GroupFrom(_, _, _, _, _)
GroupFrom(changeLines, i, groups, currentGroup, useSmartGrouping) ==
  IF i > Len(changeLines) THEN Append(groups, currentGroup)
  ELSE LET currentLine == changeLines[i]
           lastLine == currentGroup.lines[Len(currentGroup.lines)]
           startNew == IF useSmartGrouping
                       THEN shouldStartNewGroup(currentLine, lastLine, currentGroup)
                       ELSE shouldStartNewGroupBasic(currentLine, lastLine, currentGroup)
       IN IF startNew
          THEN GroupFrom(changeLines, i + 1, Append(groups, currentGroup),
                         createNewGroup(currentLine, Len(groups) + 2),
                         useSmartGrouping)
          ELSE GroupFrom(changeLines, i + 1, groups,
                         addLineToGroup(currentGroup, currentLine),
                         useSmartGrouping)

groupLines(changeLines, useSmartGrouping) ==
  IF Len(changeLines) = 0 THEN <<>>
  ELSE GroupFrom(changeLines, 2, <<>>, createNewGroup(changeLines[1], 1),
                 useSmartGrouping)

optimizeLineGroups(changeLines) == groupLines(changeLines, TRUE)

groupConsecutiveLines(changeLines) == groupLines(changeLines, FALSE)

\* reviewNewFile: the single group built from every parsed line.
reviewNewFileGroup(changeLines) ==
  [id |-> 1, lines |-> changeLines, startLine |-> changeLines[1].lineNumber,
   endLine |-> changeLines[Len(changeLines)].lineNumber, type |-> "added"]

\* The added lines of a diff: ascending line numbers, any content.
RECURSIVE Ascending(_)
Ascending(numbers) ==
  IF numbers = {} THEN <<>>
  ELSE LET least == CHOOSE n \in numbers : \A o \in numbers : n <= o
       IN <<least>> \o Ascending(numbers \ {least})

LineContents == {"code", "function", "class", "comment"}

LineSeqs ==
  UNION {{[k \in 1..Cardinality(numbers) |->
             [lineNumber |-> Ascending(numbers)[k], content |-> contents[k]]] :
            contents \in [1..Cardinality(numbers) -> LineContents]} :
           numbers \in SUBSET (1..MaxLineNo)}

\* generateFileReview: CodeProcessor.optimizeLineGroups(filteredLines)
OptimizeLineGroups ==
  /\ phase = "input"
  /\ ~input.isNewFile
  /\ output' = optimizeLineGroups(input.lines)
  /\ phase' = "smart"
  /\ UNCHANGED <<orchVars, cacheVars, cacheHist, pubVars, input,
                 mgrVars, taskVars>>

\* CodeProcessor.groupConsecutiveLines(changeLines)
GroupConsecutiveLines ==
  /\ phase = "input"
  /\ output' = groupConsecutiveLines(input.lines)
  /\ phase' = "basic"
  /\ UNCHANGED <<orchVars, cacheVars, cacheHist, pubVars, input,
                 mgrVars, taskVars>>

\* generateFileReview: reviewNewFile(fileName, changeLines, ...)
ReviewNewFile ==
  /\ phase = "input"
  /\ input.isNewFile
  /\ input.lines # <<>>
  /\ output' = <<reviewNewFileGroup(input.lines)>>
  /\ phase' = "newfile"
  /\ UNCHANGED <<orchVars, cacheVars, cacheHist, pubVars, input,
                 mgrVars, taskVars>>

InitGrouper ==
  /\ changes = <<>>
  /\ OrchIdle
  /\ CacheIdle
  /\ HistIdle
  /\ MgrIdle
  /\ TaskIdle
  /\ PubIdle
  /\ input \in [lines : LineSeqs, isNewFile : BOOLEAN]
  /\ output = <<>>
  /\ phase = "input"

NextGrouper == OptimizeLineGroups \/ GroupConsecutiveLines \/ ReviewNewFile

SpecGrouper == InitGrouper /\ [][NextGrouper]_vars

Consecutive(group) ==
  \A i \in 2..Len(group.lines) :
     group.lines[i].lineNumber = group.lines[i - 1].lineNumber + 1

\* C17: in every group handed on for review the lines are consecutive.
C17_GroupLinesConsecutive ==
  phase \in {"smart", "basic", "newfile"} =>
    \A g \in 1..Len(output) : Consecutive(output[g])

\* C18 as stated: no group of the grouper, in either mode, has more lines
\* than maxLinesPerGroup.
C18_GroupSizeBounded ==
  phase \in {"smart", "basic"} =>
    \A g \in 1..Len(output) : Len(output[g].lines) <= maxLinesPerGroup

\* C18, amended: no group of the smart grouper has more lines than
\* maxLinesPerGroup.
C18_SmartGroupSizeBounded ==
  phase = "smart" =>
    \A g \in 1..Len(output) : Len(output[g].lines) <= maxLinesPerGroup

\* The smart grouper has split a run of more than maxLinesPerGroup adjacent
\* plain lines.
C18_Witness ==
  /\ phase = "smart"
  /\ \E i \in 1..(Len(input.lines) - maxLinesPerGroup) :
       \A j \in i..(i + maxLinesPerGroup) :
          /\ input.lines[j].content = "code"
          /\ input.lines[j].lineNumber = input.lines[i].lineNumber + (j - i)
  /\ \E g \in 1..Len(output) : Len(output[g].lines) = maxLinesPerGroup

(***************************************************************************)
(* The path of one change from the file gate to the model call:            *)
(* FileFilter.isSignificantChange, then generateFileReview.  A change is   *)
(* [fileType, old_path, diff]; the text of a diff line is one of           *)
(* FileTexts: "" (blank), "//c" (a comment line), "a=1" and "a = 1" (the   *)
(* same code spaced differently), "b=2" (other code), "debugger;" (a line  *)
(* of the skip patterns) and "<style>" (a style tag of a .vue file).       *)
(***************************************************************************)
FileTexts == {"", "//c", "a=1", "a = 1", "b=2", "debugger;", "<style>"}

\* content.replace(/\s+/g, "")
Normalized(text) == IF text = "a = 1" THEN "a=1" ELSE text

\* Lines longer than maxLength: an assignment and a console.log( call.
LongTexts == {"x = <long>", "console.log(<long>)"}

\* content.length of the trimmed text
TrimmedLength(text) ==
  CASE text = "" -> 0
    [] text \in LongTexts -> 201
    [] text \in {"//c", "a=1", "b=2"} -> 3
    [] text = "a = 1" -> 5
    [] text = "debugger;" -> 9
    [] OTHER -> 7

minLength == 3

maxLength == 200

isValidContentLength(content) ==
  IF TrimmedLength(content) < minLength THEN FALSE
  ELSE IF TrimmedLength(content) > maxLength THEN TRUE
  ELSE TRUE

matchesSkipPatterns(content) ==
  content \in {"debugger;", "console.log(<long>)"}

isNotJustWhitespace(content) == content # ""

preFilterCodeLines(changeLines) ==
  SelectSeq(changeLines,
            LAMBDA line : /\ isValidContentLength(line.content)
                          /\ ~matchesSkipPatterns(line.content)
                          /\ isNotJustWhitespace(line.content))

\* FileFilter.parseDiffLines: the trimmed texts of the lines of one sign.
TextsOfKind(diff, kind) ==
  LET at == SelectSeq(IdxSeq(Len(diff)), LAMBDA i : diff[i].kind = kind)
  IN [k \in 1..Len(at) |-> diff[at[k]].content]

addedLinesOf(diff) == TextsOfKind(diff, "+")

removedLinesOf(diff) == TextsOfKind(diff, "-")

countAddedLines(diff) == Len(addedLinesOf(diff))

isCommentLine(line) == line = "//c"

hasOnlyWhitespaceChanges(addedLines, removedLines) ==
  /\ \A i \in 1..Len(addedLines) : addedLines[i] = ""
  /\ \A i \in 1..Len(removedLines) : removedLines[i] = ""

hasOnlyCommentFormatChanges(addedLines, removedLines) ==
  /\ \A i \in 1..Len(addedLines) : isCommentLine(addedLines[i])
  /\ \A i \in 1..Len(removedLines) : isCommentLine(removedLines[i])

hasOnlyNormalizedChanges(addedLines, removedLines) ==
  \E i \in 1..Min(Len(addedLines), Len(removedLines)) :
     /\ Normalized(addedLines[i]) = Normalized(removedLines[i])
     /\ Normalized(addedLines[i]) # ""

isFormatOnlyChange(diff) ==
  LET addedLines == addedLinesOf(diff)
      removedLines == removedLinesOf(diff)
  IN IF Len(addedLines) = 0 /\ Len(removedLines) = 0 THEN FALSE
     ELSE \/ hasOnlyWhitespaceChanges(addedLines, removedLines)
          \/ hasOnlyCommentFormatChanges(addedLines, removedLines)
          \/ hasOnlyNormalizedChanges(addedLines, removedLines)

hasBasicChanges(diff) ==
  IF countAddedLines(diff) = 0 THEN FALSE
  ELSE IF isFormatOnlyChange(diff) THEN FALSE
  ELSE TRUE

isStyleTag(content) == content = "<style>"

\* analyzeVueFileChanges after the first i lines of the diff.
RECURSIVE analyzeVueFileChanges(_, _)
analyzeVueFileChanges(diff, i) ==
  IF i = 0
  THEN [addedLineCount |-> 0, hasStyleChanges |-> FALSE,
        hasNonStyleChanges |-> FALSE, inStyleSection |-> FALSE]
  ELSE LET before == analyzeVueFileChanges(diff, i - 1)
           line == diff[i]
       IN IF isStyleTag(line.content)
          THEN [before EXCEPT !.inStyleSection = ~@]
          ELSE IF line.kind = "+"
          THEN [before EXCEPT
                  !.addedLineCount = @ + 1,
                  !.hasStyleChanges = @ \/ before.inStyleSection,
                  !.hasNonStyleChanges = @ \/ ~before.inStyleSection]
          ELSE before

hasOnlyStyleChanges(diff) ==
  LET analysis == analyzeVueFileChanges(diff, Len(diff))
  IN analysis.hasStyleChanges /\ ~analysis.hasNonStyleChanges

shouldReviewVueFile(diff) ==
  IF analyzeVueFileChanges(diff, Len(diff)).addedLineCount = 0 THEN FALSE
  ELSE ~hasOnlyStyleChanges(diff)

\* The outcome of checkSpecialFileHandling: "null" for no special handling.
checkSpecialFileHandling(fileType, diff) ==
  IF fileType = "vue" THEN (IF shouldReviewVueFile(diff) THEN "true" ELSE "false")
  ELSE IF fileType = "css" THEN "false"
  ELSE "null"

isSignificantChange(diff, fileType) ==
  LET specialAction == checkSpecialFileHandling(fileType, diff)
  IN IF specialAction # "null" THEN specialAction = "true"
     ELSE hasBasicChanges(diff)

isOnlyAddedLines(diff) ==
  /\ \E i \in 1..Len(diff) : diff[i].kind = "+"
  /\ ~\E i \in 1..Len(diff) : diff[i].kind = "-"

\* AICodeReviewer.isNewFile on a change that carries its diff
isNewFileChange(change) == ~change.old_path \/ isOnlyAddedLines(change.diff)

\* generateFileReview up to the model call: the lines handed to the grouper,
\* the groups handed on for review, and whether the model is called.
generateFileReviewGroups(change) ==
  LET changeLines == parseDiffLines(change.diff)
      filteredLines == preFilterCodeLines(changeLines)
      nothing == [changeLines |-> changeLines, filteredLines |-> <<>>,
                  groups |-> <<>>, modelCalled |-> FALSE]
  IN IF Len(changeLines) = 0 THEN nothing
     ELSE IF isNewFileChange(change)
     THEN [nothing EXCEPT !.groups = <<reviewNewFileGroup(changeLines)>>,
                          !.modelCalled = TRUE]
     ELSE IF Len(filteredLines) = 0 THEN nothing
     ELSE [nothing EXCEPT !.filteredLines = filteredLines,
                          !.groups = optimizeLineGroups(filteredLines),
                          !.modelCalled = TRUE]

FileDiffLines ==
  {[kind |-> k, c |-> 0, content |-> t] : k \in {"+", "-"}, t \in FileTexts}
  \cup {[kind |-> " ", c |-> 0, content |-> t] : t \in {"a=1", "<style>"}}

FileDiffs ==
  {<<[kind |-> "@@", c |-> 1, content |-> ""]>> \o body :
     body \in UNION {[1..n -> FileDiffLines] : n \in 0..MaxBodyLines}}

\* A change without an old path is an added file: its diff only adds lines.
FileChanges ==
  {change \in [fileType : {"js", "vue", "css"}, old_path : BOOLEAN,
               diff : FileDiffs] :
     ~change.old_path => \A i \in 2..Len(change.diff) : change.diff[i].kind = "+"}

\* generateCodeReview: changes.filter(FileFilter.isSignificantChange)
FilterChange ==
  /\ phase = "input"
  /\ output' = [significant |-> isSignificantChange(input.diff, input.fileType)]
  /\ phase' = "filtered"
  /\ UNCHANGED <<orchVars, cacheVars, cacheHist, pubVars, input,
                 mgrVars, taskVars>>

\* processSingleFile: generateFileReview for a significant change
GenerateFileReview ==
  /\ phase = "filtered"
  /\ output.significant
  /\ output' = generateFileReviewGroups(input)
  /\ phase' = "reviewed"
  /\ UNCHANGED <<orchVars, cacheVars, cacheHist, pubVars, input,
                 mgrVars, taskVars>>

InitFile ==
  /\ changes = <<>>
  /\ OrchIdle
  /\ CacheIdle
  /\ HistIdle
  /\ MgrIdle
  /\ TaskIdle
  /\ PubIdle
  /\ input \in FileChanges
  /\ output = <<>>
  /\ phase = "input"

NextFile == FilterChange \/ GenerateFileReview

SpecFile == InitFile /\ [][NextFile]_vars

\* The change adds a file and its diff consists of added lines only.
AddedFile(change) ==
  /\ ~change.old_path
  /\ Len(change.diff) >= 2
  /\ \A i \in 2..Len(change.diff) : change.diff[i].kind = "+"

\* C19: an added file is not rejected by the file gate and is reviewed as
\* exactly one group that holds every added line of its diff.
C19_NewFileOneGroup ==
  AddedFile(input) =>
    /\ phase = "filtered" => output.significant
    /\ phase = "reviewed" =>
         /\ Len(output.groups) = 1
         /\ Len(output.groups[1].lines) = Len(input.diff) - 1
         /\ \A k \in 1..Len(output.groups[1].lines) :
              output.groups[1].lines[k].content = input.diff[k + 1].content

\* Every removed line pairs up by position with an added line that is the
\* same after all whitespace is stripped.
EveryPairNormalizedEqual(diff) ==
  LET addedLines == addedLinesOf(diff)
      removedLines == removedLinesOf(diff)
  IN /\ Len(addedLines) = Len(removedLines)
     /\ Len(addedLines) >= 1
     /\ \A i \in 1..Len(addedLines) :
          Normalized(addedLines[i]) = Normalized(removedLines[i])

\* C20: for a diff whose removed and added lines are pairwise the same after
\* whitespace stripping, no added line reaches the grouper and the model is
\* not called.
C20_FormatOnlyRejected ==
  EveryPairNormalizedEqual(input.diff) =>
    /\ phase = "filtered" => ~output.significant
    /\ phase = "reviewed" => output.filteredLines = <<>> /\ ~output.modelCalled

(***************************************************************************)
(* One file reviewed again after its diff changed.  The change groups of   *)
(* the file are the units `units` of its diff, numbered by groupLines in   *)
(* the order they appear: unit u keeps its lines and content, its group id *)
(* is its position in this run's diff.  Every model call succeeds, so a    *)
(* run is a function of the diff and the cache.                            *)
(***************************************************************************)
RenumberedGroups(units) ==
  [k \in 1..Len(units) |-> [MakeGroup(units[k]) EXCEPT !.id = k]]

UnitLists == {Ascending(us) : us \in (SUBSET (1..MaxUnits)) \ {{}}}

\* processBatchWithFallback when no call fails: the reviews it returns and
\* the cache it leaves.
RunBatch(path, batch, cache, t) ==
  LET key == generateCacheKey(path, batch)
      cached == getCachedReview(cache, key, t)
      parts == processBatchParallel(path, batch, {})
      reviews == Concat([p \in 1..Len(parts) |->
                           generateBatchReview(path, parts[p].groups, TRUE).value])
      missed == evictOnRead(cache, {key}, t)
  IN IF cached.hit THEN [value |-> cached.reviews, cache |-> cache]
     ELSE [value |-> reviews,
           cache |-> IF reviews # <<>> THEN cacheReview(missed, key, reviews, t)
                     ELSE missed]

\* processGroupsInParallel: the batches in order, from batch b on.
RECURSIVE RunBatches(_, _, _, _, _, _)
RunBatches(path, batches, b, acc, cache, t) ==
  IF b > Len(batches) THEN [value |-> acc, cache |-> cache]
  ELSE LET r == RunBatch(path, batches[b], cache, t)
       IN RunBatches(path, batches, b + 1, acc \o r.value, r.cache, t)

\* generateCodeReview for the one file with the diff `units`
ReviewAgain(units) ==
  /\ phase \in {"ready", "reviewed"}
  /\ Len(input) < MaxRuns
  /\ LET r == RunBatches(1, chunkArray(RenumberedGroups(units), maxGroupsPerBatch),
                         1, <<>>, reviewCache, now)
     IN /\ output' = filterMeaningfulReviews(r.value)
        /\ reviewCache' = r.cache
  /\ input' = Append(input, units)
  /\ phase' = "reviewed"
  /\ UNCHANGED <<orchVars, now, cacheHist, pubVars,
                 mgrVars, taskVars>>

InitAgain ==
  /\ changes = <<>>
  /\ OrchIdle
  /\ CacheIdle
  /\ HistIdle
  /\ MgrIdle
  /\ TaskIdle
  /\ PubIdle
  /\ input = <<>>
  /\ output = <<>>
  /\ phase = "ready"

NextAgain == \E units \in UnitLists : ReviewAgain(units)

SpecAgain == InitAgain /\ [][NextAgain]_vars

AscendingGroupIds(reviews) ==
  \A i \in 2..Len(reviews) : reviews[i - 1].groupId < reviews[i].groupId

\* C21: within the review of a file the results are in ascending order of
\* group id.
C21_ResultsInGroupOrder ==
  phase = "reviewed" => AscendingGroupIds(output)

(***************************************************************************)
(* The prompt of one model call: PromptGenerator and the first half of     *)
(* AIApiService.callAIForReview.  A prompt is the sequence of its          *)
(* sections.  The override file of a project is [shape, hasFormat]: the    *)
(* shape is what extractPromptRules matches in it, hasFormat tells whether *)
(* the project's own text states the reply format.  null is <<>>.          *)
(***************************************************************************)
FileShapes ==
  {"getProjectPromptAppends", "getProjectPromptTemplate", "appendsOnly",
   "getProjectSpecificPrompt", "noRules", "notText"}

ProjectFiles == [shape : FileShapes, hasFormat : BOOLEAN]

\* What gitlabAPI.getProjectFile does: it throws, finds no file or returns one.
FetchOutcomes ==
  {[kind |-> "throws"], [kind |-> "missing"]}
  \cup {[kind |-> "file", file |-> f] : f \in ProjectFiles}

ProjectText(file) ==
  IF file.hasFormat THEN <<"projectRules", "format">> ELSE <<"projectRules">>

getDefaultPrompt ==
  <<"intro", "defaultRules", "security", "example", "format", "requirements">>

\* extractPromptRules: [threw, rules] of its try block.
tryExtractPromptRules(file) ==
  CASE file.shape = "notText" -> [threw |-> TRUE, rules |-> <<>>]
    [] file.shape \in {"getProjectPromptAppends", "getProjectPromptTemplate",
                       "getProjectSpecificPrompt"} ->
         [threw |-> FALSE, rules |-> ProjectText(file)]
    [] file.shape = "appendsOnly" ->
         [threw |-> FALSE,
          rules |-> <<"intro">> \o ProjectText(file)
                    \o <<"security", "example", "format", "requirements">>]
    [] OTHER -> [threw |-> FALSE, rules |-> <<>>]

extractPromptRules(file) ==
  LET outcome == tryExtractPromptRules(file)
  IN IF outcome.threw THEN <<>> ELSE outcome.rules

\* getProjectPromptAsync: the try block ...
tryGetProjectPrompt(fetched) ==
  CASE fetched.kind = "throws" -> [threw |-> TRUE, rules |-> <<>>]
    [] fetched.kind = "missing" -> [threw |-> FALSE, rules |-> <<>>]
    [] OTHER -> [threw |-> FALSE, rules |-> extractPromptRules(fetched.file)]

\* A catch clause that throws the error again.
catchGetProjectPromptRethrow(outcome) == outcome

\* ... and its catch clause: return null.
catchGetProjectPrompt(outcome) ==
  IF outcome.threw THEN [threw |-> FALSE, rules |-> <<>>] ELSE outcome

getProjectPromptAsync(projectId, fetched, gitlabAPI) ==
  IF ~projectId \/ ~gitlabAPI THEN [threw |-> FALSE, rules |-> <<>>]
  ELSE catchGetProjectPrompt(tryGetProjectPrompt(fetched))

GroupBlocks(n) == [i \in 1..n |-> "group"]

\* getProjectPrompt: the synchronous stub returns null.
createOptimizedPrompt(n) == <<"header">> \o GroupBlocks(n) \o getDefaultPrompt

\* callAIForReview after the override was fetched, up to axios.post.
promptWithOverride(n, projectPrompt) ==
  IF projectPrompt # <<>> THEN <<"header">> \o GroupBlocks(n) \o projectPrompt
  ELSE createOptimizedPrompt(n)

\* callAIForReview: await PromptGenerator.getProjectPromptAsync(...)
FetchOverride ==
  /\ phase = "input"
  /\ input.projectId /\ input.gitlabAPI
  /\ output' = getProjectPromptAsync(input.projectId, input.fetched, input.gitlabAPI)
  /\ phase' = "fetched"
  /\ UNCHANGED <<orchVars, cacheVars, cacheHist, pubVars, input,
                 mgrVars, taskVars>>

\* callAIForReview: the prompt is built and posted; a rejected fetch leaves
\* callAIForReview by its exception.
PostPrompt ==
  /\ \/ phase = "input" /\ ~(input.projectId /\ input.gitlabAPI)
     \/ phase = "fetched"
  /\ IF phase = "fetched" /\ output.threw
     THEN /\ output' = [threw |-> TRUE, prompt |-> <<>>]
          /\ phase' = "failed"
     ELSE /\ output' = [threw |-> FALSE,
                        prompt |-> IF phase = "fetched"
                                   THEN promptWithOverride(input.groups, output.rules)
                                   ELSE createOptimizedPrompt(input.groups)]
          /\ phase' = "posted"
  /\ UNCHANGED <<orchVars, cacheVars, cacheHist, pubVars, input,
                 mgrVars, taskVars>>

InitPrompt ==
  /\ changes = <<>>
  /\ OrchIdle
  /\ CacheIdle
  /\ HistIdle
  /\ MgrIdle
  /\ TaskIdle
  /\ PubIdle
  /\ input \in [projectId : BOOLEAN, gitlabAPI : BOOLEAN,
                fetched : FetchOutcomes, groups : 1..MaxGroups]
  /\ output = <<>>
  /\ phase = "input"

NextPrompt == FetchOverride \/ PostPrompt

SpecPrompt == InitPrompt /\ [][NextPrompt]_vars

\* No override reaches the prompt: none is asked for, the fetch fails, there
\* is no file, or the file has no rule block.
OverrideAbsent(in) ==
  \/ ~in.projectId
  \/ ~in.gitlabAPI
  \/ in.fetched.kind \in {"throws", "missing"}
  \/ in.fetched.kind = "file" /\ in.fetched.file.shape \in {"noRules", "notText"}

RuleSection(prompt, n) == SubSeq(prompt, n + 2, Len(prompt))

\* C22: without an override, or when fetching it fails, the call does not
\* fail and the prompt posted carries the default rule set.
C22_DefaultRulesWithoutOverride ==
  OverrideAbsent(input) =>
    /\ phase # "failed"
    /\ phase = "posted" =>
         ~output.threw /\ RuleSection(output.prompt, input.groups) = getDefaultPrompt

\* A prompt was posted after the fetch of the override had failed.
C22_Witness ==
  /\ phase = "posted"
  /\ input.projectId /\ input.gitlabAPI
  /\ input.fetched.kind = "throws"

\* C23: every prompt posted states the reply format.
C23_PromptHasFormat ==
  phase = "posted" =>
    \E i \in 1..Len(output.prompt) : output.prompt[i] = "format"

(***************************************************************************)
(* Construction of the reviewer.  The environment either defines           *)
(* AI_API_KEY and AI_API_URL or leaves them undefined; a model call with   *)
(* an undefined key or URL cannot succeed.                                 *)
(***************************************************************************)
\* new AIApiService(apiKey, apiURL)
AIApiServiceNew(apiKey, apiURL) == [apiKey |-> apiKey, apiURL |-> apiURL]

\* new AICodeReviewer(): the reviewer it returns; it has no throwing path.
AICodeReviewerNew(env) ==
  [threw |-> FALSE,
   aiApiService |-> AIApiServiceNew(env.AI_API_KEY, env.AI_API_URL),
   calls |-> <<>>]

\* new AICodeReviewer()
Construct ==
  /\ phase = "input"
  /\ output' = AICodeReviewerNew(input)
  /\ phase' = "constructed"
  /\ UNCHANGED <<orchVars, cacheVars, cacheHist, pubVars, input,
                 mgrVars, taskVars>>

\* callAIForReview: axios.post with the stored key and URL answers (ok) or
\* throws.
ReviewCall(ok) ==
  /\ phase \in {"constructed", "called"}
  /\ ~output.threw
  /\ Len(output.calls) < MaxCalls
  /\ ok => output.aiApiService.apiKey /\ output.aiApiService.apiURL
  /\ output' = [output EXCEPT !.calls = Append(@, IF ok THEN "ok" ELSE "failed")]
  /\ phase' = "called"
  /\ UNCHANGED <<orchVars, cacheVars, cacheHist, pubVars, input,
                 mgrVars, taskVars>>

InitConfig ==
  /\ changes = <<>>
  /\ OrchIdle
  /\ CacheIdle
  /\ HistIdle
  /\ MgrIdle
  /\ TaskIdle
  /\ PubIdle
  /\ input \in [AI_API_KEY : BOOLEAN, AI_API_URL : BOOLEAN]
  /\ output = <<>>
  /\ phase = "input"

NextConfig == Construct \/ \E ok \in BOOLEAN : ReviewCall(ok)

SpecConfig == InitConfig /\ [][NextConfig]_vars

\* C24: with the key or the URL missing the construction of the reviewer
\* fails, and no model call is ever started.
C24_ConstructionRefusesBadConfig ==
  (~input.AI_API_KEY \/ ~input.AI_API_URL) =>
    /\ phase = "constructed" => output.threw
    /\ phase # "called"

(***************************************************************************)
(* ProcessManager.  The instance is a record: childProcess (not null),     *)
(* connected and killed (of the child), restartCount, isShuttingDown,      *)
(* healthCheckTimer (set), timers (the pending timers of scheduleRestart   *)
(* and of restart, "scheduled" and "delayed": both wait restartDelay, so   *)
(* they fire in the order they were set), exitPending (the timer of        *)
(* gracefulShutdown), exited (process.exit was called), launched and forks *)
(* (history: children started).  The limit of 10 is scaled to maxRestarts. *)
(* The health check interval (30 s) is longer than restartDelay (5 s): a   *)
(* health check never finds the timer of an earlier restart() pending.     *)
(***************************************************************************)
ProcessManagerNew ==
  [childProcess |-> FALSE, connected |-> FALSE, killed |-> FALSE,
   restartCount |-> 0, isShuttingDown |-> FALSE, healthCheckTimer |-> FALSE,
   timers |-> <<>>, exitPending |-> FALSE, exited |-> FALSE,
   launched |-> FALSE, forks |-> 0]

scheduleRestart(mgr) ==
  IF mgr.isShuttingDown THEN mgr
  ELSE [mgr EXCEPT !.timers = Append(@, "scheduled")]

\* start(): forkOk = FALSE is a fork that throws.
start(mgr, forkOk) ==
  IF mgr.childProcess THEN mgr
  ELSE IF forkOk
  THEN [mgr EXCEPT !.childProcess = TRUE, !.connected = TRUE, !.killed = FALSE,
                   !.healthCheckTimer = TRUE, !.forks = @ + 1]
  ELSE scheduleRestart(mgr)

stop(mgr) ==
  IF ~mgr.childProcess THEN mgr
  ELSE [mgr EXCEPT !.healthCheckTimer = FALSE, !.killed = TRUE]

restart(mgr) ==
  IF mgr.isShuttingDown THEN mgr
  ELSE [stop(mgr) EXCEPT !.timers = Append(@, "delayed")]

\* A handler that restarts the child whatever the count.
handleExitNoLimit(mgr) ==
  LET gone == [mgr EXCEPT !.childProcess = FALSE, !.connected = FALSE]
  IN IF ~gone.isShuttingDown
     THEN scheduleRestart([gone EXCEPT !.restartCount = @ + 1])
     ELSE gone

handleExit(mgr) ==
  LET gone == [mgr EXCEPT !.childProcess = FALSE, !.connected = FALSE]
  IN IF ~gone.isShuttingDown /\ gone.restartCount < maxRestarts
     THEN scheduleRestart([gone EXCEPT !.restartCount = @ + 1])
     ELSE IF gone.restartCount >= maxRestarts
     THEN [gone EXCEPT !.exited = TRUE]
     ELSE gone

performHealthCheck(mgr) ==
  IF ~mgr.childProcess \/ mgr.killed THEN mgr
  ELSE IF ~mgr.connected THEN restart(mgr)
  ELSE mgr

gracefulShutdown(mgr) ==
  IF mgr.isShuttingDown THEN mgr
  ELSE [stop([mgr EXCEPT !.isShuttingDown = TRUE])
          EXCEPT !.healthCheckTimer = FALSE, !.exitPending = TRUE]

MgrStep(mgr) ==
  /\ manager' = mgr
  /\ UNCHANGED <<orchVars, cacheVars, cacheHist, pubVars, pureVars, taskVars>>

Alive == ~manager.exited /\ manager.forks < MaxForks

\* Launcher.start(): this.processManager.start()
LauncherStart(forkOk) ==
  /\ Alive
  /\ ~manager.launched
  /\ MgrStep(start([manager EXCEPT !.launched = TRUE], forkOk))

\* The timer of scheduleRestart fires.
ScheduledTimerFires(forkOk) ==
  /\ Alive
  /\ manager.timers # <<>>
  /\ Head(manager.timers) = "scheduled"
  /\ LET mgr == [manager EXCEPT !.timers = Tail(@)]
     IN MgrStep(IF ~mgr.isShuttingDown THEN start(mgr, forkOk) ELSE mgr)

\* The timer of restart() fires.
DelayedTimerFires(forkOk) ==
  /\ Alive
  /\ manager.timers # <<>>
  /\ Head(manager.timers) = "delayed"
  /\ MgrStep(start([manager EXCEPT !.timers = Tail(@)], forkOk))

\* The child exits: it crashed or obeyed a signal.
ChildExits ==
  /\ Alive
  /\ manager.childProcess
  /\ MgrStep(handleExit(manager))

\* The IPC channel of the child closes.
ChildDisconnects ==
  /\ Alive
  /\ manager.childProcess /\ manager.connected
  /\ MgrStep([manager EXCEPT !.connected = FALSE])

\* The health check interval fires.
HealthCheck ==
  /\ Alive
  /\ manager.healthCheckTimer
  /\ \A i \in 1..Len(manager.timers) : manager.timers[i] # "delayed"
  /\ MgrStep(performHealthCheck(manager))

\* SIGTERM, SIGINT, an uncaught exception or an unhandled rejection
ShutdownSignal ==
  /\ Alive
  /\ manager.launched
  /\ MgrStep(gracefulShutdown(manager))

\* The timer of gracefulShutdown fires: process.exit(0)
ShutdownExit ==
  /\ Alive
  /\ manager.exitPending
  /\ MgrStep([manager EXCEPT !.exited = TRUE])

InitManager ==
  /\ changes = <<>>
  /\ OrchIdle
  /\ CacheIdle
  /\ HistIdle
  /\ PubIdle
  /\ PureIdle
  /\ TaskIdle
  /\ manager = ProcessManagerNew

NextManager ==
  \/ \E forkOk \in BOOLEAN :
       \/ LauncherStart(forkOk)
       \/ ScheduledTimerFires(forkOk)
       \/ DelayedTimerFires(forkOk)
  \/ ChildExits
  \/ ChildDisconnects
  \/ HealthCheck
  \/ ShutdownSignal
  \/ ShutdownExit

SpecManager == InitManager /\ [][NextManager]_vars

\* C25: the manager starts the child at most maxRestarts times after the
\* first start, the restart count never passes the limit, and once the manager
\* has given up at the limit no child runs.
C25_RestartsBounded ==
  /\ manager.restartCount <= maxRestarts
  /\ (manager.exited /\ ~manager.isShuttingDown) => ~manager.childProcess
  /\ manager.forks <= maxRestarts + 1

\* The limit was reached: the child was restarted maxRestarts times, exited
\* again, and the manager stopped without starting another one.
C25_Witness ==
  /\ manager.forks = maxRestarts + 1
  /\ manager.restartCount = maxRestarts
  /\ ~manager.childProcess
  /\ manager.exited
  /\ ~manager.isShuttingDown

(***************************************************************************)
(* The file bound of processFilesConcurrently, under Spec.                 *)
(***************************************************************************)
Pending == {f \in DOMAIN status : status[f] = "pending"}

\* C26: the file bound is a counting semaphore: while the run is in progress,
\* no file waits when fewer than maxConcurrentFiles files are in progress.
C26_FileBoundIsSemaphore ==
  (pc = "running" /\ Pending # {}) =>
    Cardinality(Running) >= maxConcurrentFiles

(***************************************************************************)
(* processBatchParallel on its own: the batches processGroupsInParallel    *)
(* hands over under the default configuration, where a batch holds up to   *)
(* 15 groups.  The input is [fileName, batch, existingComments], the       *)
(* output the model calls started for the batch.                           *)
(***************************************************************************)
BatchInputs ==
  {[fileName |-> f,
    batch |-> [i \in 1..n |-> MakeGroup(first + i - 1)],
    existingComments |-> comments] :
     f \in 1..2, n \in 1..MaxBatch, first \in 1..2, comments \in CommentSets}

SplitBatch ==
  /\ phase = "input"
  /\ output' = processBatchParallel(input.fileName, input.batch,
                                    input.existingComments)
  /\ phase' = "split"
  /\ UNCHANGED <<orchVars, cacheVars, cacheHist, pubVars, input,
                 mgrVars, taskVars>>

InitSplit ==
  /\ changes = <<>>
  /\ OrchIdle
  /\ CacheIdle
  /\ HistIdle
  /\ MgrIdle
  /\ TaskIdle
  /\ PubIdle
  /\ input \in BatchInputs
  /\ output = <<>>
  /\ phase = "input"

NextSplit == SplitBatch

SpecSplit == InitSplit /\ [][NextSplit]_vars

\* C27: after the duplicates are dropped, every batched model call of a batch
\* carries at most 3 groups.
C27_CallsCarryAtMostThree ==
  phase = "split" =>
    \A p \in 1..Len(output) : Len(output[p].groups) <= smallBatchLimit

(***************************************************************************)
(* Batching and splitting, under Spec: the model calls of a file against   *)
(* the groups of its diff.                                                 *)
(***************************************************************************)
\* The groups of file f that reach the model: the single group of a new
\* file, or the groups no existing comment covers.
SurvivingGroups(f) ==
  LET change == significantChanges[f]
  IN IF isNewFile(change) THEN {newFileGroup(change)}
     ELSE {g \in Range(lineGroups(change)) :
             ~hasSimilarComment(existingComments, change.new_path, g)}

\* The model calls of file f that carry group g.
CallsCarrying(f, g) ==
  {c \in UNION {{<<b, p>> : p \in 1..Len(work[f][b].parts)} :
                  b \in 1..Len(work[f])} :
     g \in Range(work[f][c[1]].parts[c[2]].groups)}

ColdRunReturned ==
  /\ pc = "returned"
  /\ run = 1
  /\ \A part \in AllParts : ~part.failed

\* C28: when a run over an empty cache in which no call failed has returned,
\* every group that survived deduplication is in exactly one model call, and
\* no model call carries any other group.
C28_EachGroupInOneCall ==
  ColdRunReturned =>
    \A f \in DOMAIN work :
       /\ \A g \in SurvivingGroups(f) : Cardinality(CallsCarrying(f, g)) = 1
       /\ \A part \in PartsOf(f) : Range(part.groups) \subseteq SurvivingGroups(f)

\* Such a run returned with a file whose batch was split into two sub-batches
\* and a file that lost a group to deduplication.
C28_Witness ==
  /\ ColdRunReturned
  /\ \E f \in DOMAIN work : \E b \in 1..Len(work[f]) : Len(work[f][b].parts) = 2
  /\ \E f \in DOMAIN work :
       ~isNewFile(significantChanges[f])
       /\ SurvivingGroups(f) # Range(lineGroups(significantChanges[f]))

(***************************************************************************)
(* processBatchWithFallback on its own, for one batch of a file that is    *)
(* not new, over an empty cache.  The output is [batch, log]: the batch as *)
(* in the orchestrator and the model calls that have finished, in order,   *)
(* each [kind, groups, ok].                                                *)
(***************************************************************************)
BeginBatch ==
  /\ phase = "input"
  /\ LET batch == StartBatch(input.fileName, input.batch,
                             input.existingComments, <<>>, 0)
     IN /\ output' = [batch |-> batch, log |-> <<>>]
        /\ phase' = IF batch.settled THEN "done" ELSE "running"
  /\ UNCHANGED <<orchVars, cacheVars, cacheHist, pubVars, input,
                 mgrVars, taskVars>>

\* The model call of part p returns (ok) or throws (~ok).
BatchCallReturns(p, ok) ==
  /\ phase = "running"
  /\ p \in 1..Len(output.batch.parts)
  /\ output.batch.parts[p].st = "inflight"
  /\ LET part == output.batch.parts[p]
         r == SettlePart(input.fileName, output.batch, p, ok, <<>>, 0)
     IN /\ output' = [batch |-> r.batch,
                      log |-> Append(output.log,
                                     [kind |-> part.kind, groups |-> part.groups,
                                      ok |-> ok])]
        /\ phase' = IF r.batch.settled THEN "done" ELSE "running"
  /\ UNCHANGED <<orchVars, cacheVars, cacheHist, pubVars, input,
                 mgrVars, taskVars>>

InitFallback ==
  /\ changes = <<>>
  /\ OrchIdle
  /\ CacheIdle
  /\ HistIdle
  /\ MgrIdle
  /\ TaskIdle
  /\ PubIdle
  /\ input \in BatchInputs
  /\ output = <<>>
  /\ phase = "input"

NextFallback ==
  \/ BeginBatch
  \/ \E p \in 1..MaxBatch, ok \in BOOLEAN : BatchCallReturns(p, ok)

SpecFallback == InitFallback /\ [][NextFallback]_vars

ExpiredAt(cache, t) == {k \in DOMAIN cache : ~isFresh(cache, k, t)}

\* The step is a write of key that brings the entry count above the cap.
OverflowingWrite(key) ==
  /\ written' # written
  /\ key \in DOMAIN written'
  /\ written'[key].at = now
  /\ \E reviews \in CacheValues :
       reviewCache' = cacheReview(reviewCache, key, reviews, now)
  /\ Cardinality((DOMAIN reviewCache) \cup {key}) > cacheMaxSize

\* C30: a write that brings the entry count above the cap leaves no entry in
\* the cache that a read would treat as expired.
C30_SweepLeavesNoExpired ==
  [][\A key \in CacheKeys :
       OverflowingWrite(key) => ExpiredAt(reviewCache', now') = {}]_vars

(***************************************************************************)
(* generateCacheKey as the string it builds.  A string is a sequence of    *)
(* characters; a line number is kept as one character, its decimal form,   *)
(* which no line content of the model contains.  A group is [startLine,    *)
(* endLine, lines], a line [content].  The input is two batches, each      *)
(* [fileName, groups]; the output their two keys.                          *)
(***************************************************************************)
\* Array.prototype.join
RECURSIVE join(_, _)
join(strings, separator) ==
  IF strings = <<>> THEN <<>>
  ELSE IF Len(strings) = 1 THEN strings[1]
  ELSE strings[1] \o separator \o join(Tail(strings), separator)

generateCacheKeyString(fileName, groups) ==
  LET groupContent ==
        join([i \in 1..Len(groups) |->
                <<groups[i].startLine>> \o <<"-">> \o <<groups[i].endLine>>
                \o <<":">>
                \o join([l \in 1..Len(groups[i].lines) |->
                           groups[i].lines[l].content], <<>>)],
             <<"|">>)
  IN fileName \o <<":">> \o groupContent

KeyContents ==
  UNION {[1..n -> {"a", "b"}] : n \in 1..MaxContent}

\* A batch of one group of two consecutive added lines.
KeyBatches ==
  {[fileName |-> f,
    groups |-> <<[startLine |-> first, endLine |-> first + 1,
                  lines |-> <<[content |-> c1], [content |-> c2]>>]>>] :
     f \in {<<"f">>, <<"g">>}, first \in 1..2,
     c1 \in KeyContents, c2 \in KeyContents}

GenerateKeys ==
  /\ phase = "input"
  /\ output' = <<generateCacheKeyString(input[1].fileName, input[1].groups),
                 generateCacheKeyString(input[2].fileName, input[2].groups)>>
  /\ phase' = "keyed"
  /\ UNCHANGED <<orchVars, cacheVars, cacheHist, pubVars, input,
                 mgrVars, taskVars>>

InitKey ==
  /\ changes = <<>>
  /\ OrchIdle
  /\ CacheIdle
  /\ HistIdle
  /\ MgrIdle
  /\ TaskIdle
  /\ PubIdle
  /\ input \in KeyBatches \X KeyBatches
  /\ output = <<>>
  /\ phase = "input"

NextKey == GenerateKeys

SpecKey == InitKey /\ [][NextKey]_vars

\* C31: two batches that differ in file path, in a group's line range or in
\* the content of a line have different cache keys.
C31_KeyDeterminesBatch ==
  (phase = "keyed" /\ input[1] # input[2]) => output[1] # output[2]

(***************************************************************************)
(* The format-only gate, under SpecFile.                                   *)
(***************************************************************************)
\* The file gate rejected the change as format-only: a file type without
\* special handling, with added lines, found not significant.
RejectedAsFormatOnly ==
  /\ phase = "filtered"
  /\ input.fileType = "js"
  /\ countAddedLines(input.diff) > 0
  /\ ~output.significant

\* C32: a change is rejected as format-only only if its removed and added
\* lines are pairwise the same after whitespace stripping, or all of them are
\* blank, or all of them are comment lines.
C32_FormatOnlyJustified ==
  RejectedAsFormatOnly =>
    \/ EveryPairNormalizedEqual(input.diff)
    \/ hasOnlyWhitespaceChanges(addedLinesOf(input.diff),
                                removedLinesOf(input.diff))
    \/ hasOnlyCommentFormatChanges(addedLinesOf(input.diff),
                                   removedLinesOf(input.diff))

(***************************************************************************)
(* CodeProcessor.preFilterCodeLines on its own: the input is the list of   *)
(* added lines of a diff, each [lineNumber, content], the output the lines *)
(* that pass.                                                              *)
(***************************************************************************)
AddedLineLists ==
  UNION {{[i \in 1..n |-> [lineNumber |-> i, content |-> texts[i]]] :
            texts \in [1..n -> (FileTexts \cup LongTexts)]} : n \in 1..2}

PreFilter ==
  /\ phase = "input"
  /\ output' = preFilterCodeLines(input)
  /\ phase' = "prefiltered"
  /\ UNCHANGED <<orchVars, cacheVars, cacheHist, pubVars, input,
                 mgrVars, taskVars>>

InitLine ==
  /\ changes = <<>>
  /\ OrchIdle
  /\ CacheIdle
  /\ HistIdle
  /\ MgrIdle
  /\ TaskIdle
  /\ PubIdle
  /\ input \in AddedLineLists
  /\ output = <<>>
  /\ phase = "input"

NextLine == PreFilter

SpecLine == InitLine /\ [][NextLine]_vars

\* C33: every added line whose trimmed content is longer than maxLength
\* passes the line filter.
C33_LongLinePasses ==
  phase = "prefiltered" =>
    \A i \in 1..Len(input) :
       TrimmedLength(input[i].content) > maxLength =>
         \E k \in 1..Len(output) : output[k] = input[i]

(***************************************************************************)
(* Task tracking of the two event handlers: EventHandler (GitLab merge     *)
(* requests) and GitHubEventHandler (GitHub pushes).  processingTasks is,  *)
(* per handler, its Map as the list of its entries in insertion order,     *)
(* each [taskId, status, startTime].  A task id is the tuple of the parts  *)
(* its template string joins with "_": the parts are a fixed type and      *)
(* numbers, so the string and the tuple determine each other.  An          *)
(* execution is one call of executeCodeReviewTask or executeCodeReview:    *)
(* [handler, taskId, await, hasReviews], await the call it is suspended    *)
(* at, or "done".  Date.now() is `now`, in milliseconds; the map cap of    *)
(* 100 is scaled to maxTasks.                                              *)
(***************************************************************************)
Projects == 1..2

IndexOfTask(tasks, taskId) ==
  LET at == {i \in 1..Len(tasks) : tasks[i].taskId = taskId}
  IN IF at = {} THEN 0 ELSE CHOOSE i \in at : TRUE

\* Map.prototype.set: an existing key keeps its place.
MapSet(tasks, entry) ==
  LET i == IndexOfTask(tasks, entry.taskId)
  IN IF i = 0 THEN Append(tasks, entry) ELSE [tasks EXCEPT ![i] = entry]

\* Array.prototype.sort by startTime, stable.
RECURSIVE SortByStartTime(_)
SortByStartTime(entries) ==
  IF entries = <<>> THEN <<>>
  ELSE LET rest == SortByStartTime(Tail(entries))
           e == Head(entries)
           before == SelectSeq(rest, LAMBDA x : x.startTime < e.startTime)
           after == SelectSeq(rest, LAMBDA x : x.startTime >= e.startTime)
       IN before \o <<e>> \o after

\* A cleanup that discards the oldest tasks whatever their status.
cleanupOldestTasks(tasks) ==
  IF Len(tasks) > maxTasks
  THEN LET sorted == SortByStartTime(tasks)
           tasksToRemove == SubSeq(sorted, 1, Min(Len(sorted), Len(tasks) - maxTasks))
       IN SelectSeq(tasks, LAMBDA x : \A i \in 1..Len(tasksToRemove) :
                                         tasksToRemove[i].taskId # x.taskId)
  ELSE tasks

cleanupCompletedTasks(tasks) ==
  IF Len(tasks) > maxTasks
  THEN LET completedTasks ==
             SortByStartTime(SelectSeq(tasks, LAMBDA x :
                               x.status \in {"completed", "failed"}))
           tasksToRemove ==
             SubSeq(completedTasks, 1,
                    Min(Len(completedTasks), Len(tasks) - maxTasks))
       IN SelectSeq(tasks, LAMBDA x : \A i \in 1..Len(tasksToRemove) :
                                         tasksToRemove[i].taskId # x.taskId)
  ELSE tasks

updateTaskStatus(tasks, taskId, newStatus) ==
  LET i == IndexOfTask(tasks, taskId)
  IN IF i = 0 THEN tasks ELSE [tasks EXCEPT ![i].status = newStatus]

\* EventHandler.startCodeReviewTask: the id, the record, and the cleanup.
gitlabTaskId(taskType, taskData, t) ==
  <<taskType, taskData.projectId, taskData.mrIid, t>>

startCodeReviewTask(tasks, taskType, taskData, t) ==
  cleanupCompletedTasks(
    MapSet(tasks, [taskId |-> gitlabTaskId(taskType, taskData, t),
                   status |-> "processing", startTime |-> t]))

\* GitHubEventHandler.startCodeReviewTask
githubTaskId(taskType, t) == <<taskType, t>>

githubStartCodeReviewTask(tasks, taskType, taskData, t) ==
  MapSet(tasks, [taskId |-> githubTaskId(taskType, t),
                 status |-> "processing", startTime |-> t])

\* What the awaited call can answer: it returns, returns nothing to review,
\* returns a pull request marked to be skipped, or throws.
Outcomes(exec) ==
  CASE exec.await = "getMRChanges" -> {"ok", "empty", "throw"}
    [] exec.await = "getPRChanges" -> {"ok", "empty", "skip", "throw"}
    [] exec.await = "generateCodeReview" /\ exec.handler = "github" ->
         {"ok", "empty", "throw"}
    [] exec.await = "done" -> {}
    [] OTHER -> {"ok", "throw"}

\* A variant that returns without a status update when there are no changes.
executeCodeReviewTaskSilentOnEmpty(exec, outcome) ==
  IF outcome = "throw"
  THEN [exec |-> [exec EXCEPT !.await = "done"], status |-> "failed"]
  ELSE CASE exec.await = "getMRChanges" ->
              IF outcome = "empty"
              THEN [exec |-> [exec EXCEPT !.await = "done"], status |-> ""]
              ELSE [exec |-> [exec EXCEPT !.await = "getExistingComments"],
                    status |-> ""]
         [] exec.await = "getExistingComments" ->
              [exec |-> [exec EXCEPT !.await = "generateCodeReview"],
               status |-> ""]
         [] exec.await = "generateCodeReview" ->
              [exec |-> [exec EXCEPT !.await = "postInlineCommentsToMR"],
               status |-> ""]
         [] OTHER ->
              [exec |-> [exec EXCEPT !.await = "done"], status |-> "completed"]

\* EventHandler.executeCodeReviewTask from one await to the next: the
\* execution after it and the status it records ("" for none).
executeCodeReviewTask(exec, outcome) ==
  IF outcome = "throw"
  THEN [exec |-> [exec EXCEPT !.await = "done"], status |-> "failed"]
  ELSE CASE exec.await = "getMRChanges" ->
              IF outcome = "empty"
              THEN [exec |-> [exec EXCEPT !.await = "done"],
                    status |-> "completed"]
              ELSE [exec |-> [exec EXCEPT !.await = "getExistingComments"],
                    status |-> ""]
         [] exec.await = "getExistingComments" ->
              [exec |-> [exec EXCEPT !.await = "generateCodeReview"],
               status |-> ""]
         [] exec.await = "generateCodeReview" ->
              [exec |-> [exec EXCEPT !.await = "postInlineCommentsToMR"],
               status |-> ""]
         [] OTHER ->
              [exec |-> [exec EXCEPT !.await = "done"], status |-> "completed"]

\* GitHubEventHandler.executeCodeReview from one await to the next.
executeCodeReview(exec, outcome) ==
  IF outcome = "throw"
  THEN [exec |-> [exec EXCEPT !.await = "done"], status |-> "failed"]
  ELSE CASE exec.await = "getPRChanges" ->
              IF outcome \in {"skip", "empty"}
              THEN [exec |-> [exec EXCEPT !.await = "done"],
                    status |-> "completed"]
              ELSE [exec |-> [exec EXCEPT !.await = "generateCodeReview"],
                    status |-> ""]
         [] exec.await = "generateCodeReview" ->
              [exec |-> [exec EXCEPT !.await = "postInlineCommentsToPR",
                                     !.hasReviews = (outcome = "ok")],
               status |-> ""]
         [] exec.await = "postInlineCommentsToPR" /\ exec.hasReviews ->
              [exec |-> [exec EXCEPT !.await = "postCommentToPR"], status |-> ""]
         [] OTHER ->
              [exec |-> [exec EXCEPT !.await = "done"], status |-> "completed"]

RemovedBy(before, after) ==
  {before[i] : i \in {j \in 1..Len(before) :
                        IndexOfTask(after, before[j].taskId) = 0}}

\* handleMergeRequestEvent, from the return of checkMRSizeLimits on.
MergeRequestEvent(taskData) ==
  /\ Len(executions) < MaxEvents
  /\ LET set == MapSet(processingTasks.gitlab,
                       [taskId |-> gitlabTaskId("mr", taskData, now),
                        status |-> "processing", startTime |-> now])
         tasks == startCodeReviewTask(processingTasks.gitlab, "mr", taskData, now)
     IN /\ processingTasks' = [processingTasks EXCEPT !.gitlab = tasks]
        /\ removedTasks' = removedTasks \cup RemovedBy(set, tasks)
  /\ executions' = Append(executions,
                          [handler |-> "gitlab",
                           taskId |-> gitlabTaskId("mr", taskData, now),
                           await |-> "getMRChanges", hasReviews |-> FALSE])
  /\ UNCHANGED <<orchVars, cacheVars, cacheHist, pubVars, pureVars, mgrVars>>

\* handlePushEvent, from the return of findPullRequestByBranch on.
PushEvent(taskData) ==
  /\ Len(executions) < MaxEvents
  /\ processingTasks' =
       [processingTasks EXCEPT
          !.github = githubStartCodeReviewTask(@, "github_push", taskData, now)]
  /\ executions' = Append(executions,
                          [handler |-> "github",
                           taskId |-> githubTaskId("github_push", now),
                           await |-> "getPRChanges", hasReviews |-> FALSE])
  /\ UNCHANGED <<orchVars, cacheVars, cacheHist, pubVars, pureVars, mgrVars,
                 removedTasks>>

\* The call execution e awaits returns or throws.
TaskCallReturns(e, outcome) ==
  /\ e \in 1..Len(executions)
  /\ outcome \in Outcomes(executions[e])
  /\ LET exec == executions[e]
         step == IF exec.handler = "gitlab"
                 THEN executeCodeReviewTask(exec, outcome)
                 ELSE executeCodeReview(exec, outcome)
     IN /\ executions' = [executions EXCEPT ![e] = step.exec]
        /\ processingTasks' =
             IF step.status = "" THEN processingTasks
             ELSE [processingTasks EXCEPT
                     ![exec.handler] = updateTaskStatus(@, exec.taskId, step.status)]
  /\ UNCHANGED <<orchVars, cacheVars, cacheHist, pubVars, pureVars, mgrVars,
                 removedTasks>>

\* Date.now() advances by a millisecond.
Millisecond == now < MaxMillis /\ Tick

InitTasks ==
  /\ changes = <<>>
  /\ OrchIdle
  /\ CacheIdle
  /\ HistIdle
  /\ MgrIdle
  /\ PubIdle
  /\ PureIdle
  /\ processingTasks = [gitlab |-> <<>>, github |-> <<>>]
  /\ executions = <<>>
  /\ removedTasks = {}

NextTasks ==
  \/ \E p \in Projects : MergeRequestEvent([projectId |-> p, mrIid |-> 1])
  \/ \E p \in Projects : PushEvent([repo |-> p, prNumber |-> 1])
  \/ \E e \in 1..MaxEvents, outcome \in {"ok", "empty", "skip", "throw"} :
       TaskCallReturns(e, outcome)
  \/ Millisecond

SpecTasks == InitTasks /\ [][NextTasks]_vars

\* Every call a task awaits returns or throws.
SpecTasksFair ==
  /\ SpecTasks
  /\ \A e \in 1..MaxEvents :
       WF_vars(\E outcome \in {"ok", "empty", "skip", "throw"} :
                 TaskCallReturns(e, outcome))

\* The record under the id of execution e, in the map of its handler.
RecordOf(e) ==
  LET tasks == processingTasks[executions[e].handler]
      i == IndexOfTask(tasks, executions[e].taskId)
  IN IF i = 0 THEN <<>> ELSE <<tasks[i]>>

Processing(e) ==
  /\ e \in 1..Len(executions)
  /\ RecordOf(e) # <<>>
  /\ RecordOf(e)[1].status = "processing"

Settled(e) ==
  /\ e \in 1..Len(executions)
  /\ RecordOf(e) # <<>>
  /\ RecordOf(e)[1].status \in {"completed", "failed"}

\* C34: the record of every started task, once it has status 'processing',
\* eventually has status 'completed' or 'failed', when every awaited call
\* returns or throws.
C34_ProcessingEnds ==
  \A e \in 1..MaxEvents : Processing(e) ~> Settled(e)

\* Each handler has settled a task: one completed, one failed.
C34_Witness ==
  /\ \E i \in 1..Len(processingTasks.gitlab) :
       processingTasks.gitlab[i].status = "completed"
  /\ \E i \in 1..Len(processingTasks.github) :
       processingTasks.github[i].status = "failed"

\* C35: two tasks started by one handler never have the same task id.
C35_TaskIdsDistinct ==
  \A e1, e2 \in 1..Len(executions) :
     (e1 # e2 /\ executions[e1].handler = executions[e2].handler) =>
       executions[e1].taskId # executions[e2].taskId

\* C36: a step removes from the GitLab task map only tasks that are completed
\* or failed, and none while an older completed or failed task is kept.
C36_CleanupKeepsProcessing ==
  [][\A i \in 1..Len(processingTasks.gitlab) :
       IndexOfTask(processingTasks'.gitlab, processingTasks.gitlab[i].taskId) = 0 =>
         /\ processingTasks.gitlab[i].status \in {"completed", "failed"}
         /\ \A j \in 1..Len(processingTasks'.gitlab) :
              processingTasks'.gitlab[j].status \in {"completed", "failed"} =>
                processingTasks'.gitlab[j].startTime
                  >= processingTasks.gitlab[i].startTime]_vars

\* The cleanup removed a finished task and kept a younger finished task and
\* a task still in progress.
C36_Witness ==
  /\ removedTasks # {}
  /\ \E i \in 1..Len(processingTasks.gitlab) :
       processingTasks.gitlab[i].status = "processing"
  /\ \E i \in 1..Len(processingTasks.gitlab) :
       /\ processingTasks.gitlab[i].status \in {"completed", "failed"}
       /\ \E r \in removedTasks : r.startTime < processingTasks.gitlab[i].startTime

(***************************************************************************)
(* Shutdown of the process manager, under SpecManager.                     *)
(***************************************************************************)
\* C37: once graceful shutdown has begun, no step starts a child process.
C37_NoStartAfterShutdown ==
  [][manager.isShuttingDown => manager'.forks = manager.forks]_vars

(***************************************************************************)
(* ModelManager.  The environment (the input) is [AI_MODEL, keys]: the     *)
(* configured model name, "" when unset, and per provider whether its API  *)
(* key is set; the API addresses have defaults.  The instance is           *)
(* [currentModel, modelConfigs, activeProviders], the two maps as          *)
(* functions from model names.  The output is [mgr, before, requested,     *)
(* result, switches]: the instance, the instance before the last           *)
(* switchModel, its argument and what it returned.                         *)
(***************************************************************************)
SUPPORTED_MODELS ==
  [m \in {"gpt-4", "claude-3-sonnet", "deepseek-coder", "deepseek-chat"} |->
     CASE m = "gpt-4" -> "OpenAI"
       [] m = "claude-3-sonnet" -> "Claude"
       [] OTHER -> "DeepSeek"]

ModelNames == (DOMAIN SUPPORTED_MODELS) \cup {"llama-3"}

isModelSupported(model) == model \in DOMAIN SUPPORTED_MODELS

createModelConfig(model, env) ==
  [model |-> model, apiKey |-> env.keys[SUPPORTED_MODELS[model]],
   apiURL |-> TRUE, provider |-> SUPPORTED_MODELS[model]]

initializeModelConfigs(env) ==
  [m \in DOMAIN SUPPORTED_MODELS |-> createModelConfig(m, env)]

\* validateModelConfig: TRUE when it throws.
validateModelConfigThrows(config) == ~config.apiKey \/ ~config.apiURL

\* getAIProvider: the provider's constructor validates the configuration.
getAIProviderThrows(model, config) ==
  ~isModelSupported(model) \/ ~config.apiKey \/ ~config.apiURL

\* new ModelManager(): the instance, or threw.
ModelManagerNew(env) ==
  LET modelConfigs == initializeModelConfigs(env)
      currentModel ==
        IF env.AI_MODEL = "" THEN "deepseek-coder"
        ELSE IF ~isModelSupported(env.AI_MODEL) THEN "deepseek-coder"
        ELSE env.AI_MODEL
      config == modelConfigs[currentModel]
  IN IF validateModelConfigThrows(config) \/ getAIProviderThrows(currentModel, config)
     THEN [threw |-> TRUE, mgr |-> <<>>]
     ELSE [threw |-> FALSE,
           mgr |-> [currentModel |-> currentModel, modelConfigs |-> modelConfigs,
                    activeProviders |->
                      [m \in {currentModel} |-> SUPPORTED_MODELS[m]]]]

\* A switch that makes the model current before it validates it.
switchModelAssignFirst(mgr, model) ==
  IF ~isModelSupported(model) THEN [mgr |-> mgr, result |-> FALSE]
  ELSE IF model = mgr.currentModel THEN [mgr |-> mgr, result |-> TRUE]
  ELSE LET config == mgr.modelConfigs[model]
           assigned == [mgr EXCEPT !.currentModel = model]
       IN IF validateModelConfigThrows(config) \/ getAIProviderThrows(model, config)
          THEN [mgr |-> assigned, result |-> FALSE]
          ELSE [mgr |-> [assigned EXCEPT
                           !.activeProviders =
                             [m \in (DOMAIN @) \cup {model} |-> SUPPORTED_MODELS[m]]],
                result |-> TRUE]

switchModel(mgr, model) ==
  IF ~isModelSupported(model) THEN [mgr |-> mgr, result |-> FALSE]
  ELSE IF model = mgr.currentModel THEN [mgr |-> mgr, result |-> TRUE]
  ELSE IF model \notin DOMAIN mgr.modelConfigs THEN [mgr |-> mgr, result |-> FALSE]
  ELSE LET config == mgr.modelConfigs[model]
       IN IF validateModelConfigThrows(config) THEN [mgr |-> mgr, result |-> FALSE]
          ELSE IF getAIProviderThrows(model, config)
          THEN [mgr |-> mgr, result |-> FALSE]
          ELSE [mgr |-> [mgr EXCEPT
                           !.currentModel = model,
                           !.activeProviders =
                             [m \in (DOMAIN @) \cup {model} |-> SUPPORTED_MODELS[m]]],
                result |-> TRUE]

Environments ==
  [AI_MODEL : ModelNames \cup {""},
   keys : [{"OpenAI", "Claude", "DeepSeek"} -> BOOLEAN]]

ConstructManager ==
  /\ phase = "input"
  /\ LET new == ModelManagerNew(input)
     IN IF new.threw
        THEN output' = <<>> /\ phase' = "threw"
        ELSE /\ output' = [mgr |-> new.mgr, before |-> new.mgr, requested |-> "",
                           result |-> TRUE, switches |-> 0]
             /\ phase' = "constructed"
  /\ UNCHANGED <<orchVars, cacheVars, cacheHist, pubVars, input,
                 mgrVars, taskVars>>

SwitchModel(model) ==
  /\ phase \in {"constructed", "switched"}
  /\ output.switches < MaxSwitches
  /\ LET r == switchModel(output.mgr, model)
     IN output' = [mgr |-> r.mgr, before |-> output.mgr, requested |-> model,
                   result |-> r.result, switches |-> output.switches + 1]
  /\ phase' = "switched"
  /\ UNCHANGED <<orchVars, cacheVars, cacheHist, pubVars, input,
                 mgrVars, taskVars>>

InitModels ==
  /\ changes = <<>>
  /\ OrchIdle
  /\ CacheIdle
  /\ HistIdle
  /\ MgrIdle
  /\ TaskIdle
  /\ PubIdle
  /\ input \in Environments
  /\ output = <<>>
  /\ phase = "input"

NextModels == ConstructManager \/ \E model \in ModelNames : SwitchModel(model)

SpecModels == InitModels /\ [][NextModels]_vars

\* The switch to the requested model cannot succeed: the model is not
\* supported, or its configuration lacks the credentials.
SwitchMustFail ==
  \/ ~isModelSupported(output.requested)
  \/ validateModelConfigThrows(output.before.modelConfigs[output.requested])

\* C38: a switch to an unsupported model or to a model without credentials
\* returns false, and a switch that returns false leaves the current model and
\* the active providers as they were.
C38_FailedSwitchChangesNothing ==
  phase = "switched" =>
    /\ SwitchMustFail => ~output.result
    /\ ~output.result =>
         /\ output.mgr.currentModel = output.before.currentModel
         /\ output.mgr.activeProviders = output.before.activeProviders

\* After a successful switch, a switch to a supported model without
\* credentials has failed.
C38_Witness ==
  /\ phase = "switched"
  /\ ~output.result
  /\ isModelSupported(output.requested)
  /\ Cardinality(DOMAIN output.before.activeProviders) = 2

====
